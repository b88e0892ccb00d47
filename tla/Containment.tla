---------------------------- MODULE Containment ----------------------------
(***************************************************************************)
(* Blocking an outside host at the firewall and isolating a device of the  *)
(* network: the rows that list what is contained (active_blocks,           *)
(* device_isolations) and what the firewall, the switches and the sensor   *)
(* agent really do.  No call is part of a transaction with its row.        *)
(***************************************************************************)
EXTENDS Integers, FiniteSets, Sequences

CONSTANTS
  Jobs,         \* tasks: requests of the API and playbook actions
  Hosts,        \* routable addresses that are blocked
  Devices,      \* addresses of the network that are isolated
  Methods,      \* enforcements in use
  ListLimit,    \* LIMIT of list_active_blocks
  NoTask,
  MaxRequests,  \* bound on requests
  MaxFaults     \* bound on failed calls, restarts and edits of integrations

VARIABLES
  enabled,      \* integrations: the firewall's and those of the methods
  table,        \* hosts that the firewall blocks
  blocks,       \* active_blocks, in the order of created_at
  vlan, open,   \* of each device: its port, its access at UniFi or in the cloud
  registry, drops,  \* the agent's isolated devices, its DROP rules
  isolations,   \* device_isolations
  job,
  requests, faults,
  missed,       \* hosts for which a call failed or was left out
  mixed         \* devices isolated twice at a time, or with a failed call

vars == <<enabled, table, blocks, vlan, open, registry, drops, isolations, job, requests,
          faults, missed, mixed>>

firewall == <<table, blocks, missed>>
network == <<vlan, open, registry, drops, isolations, mixed>>

Readable == {"cisco", "snmp"}        \* get_current_vlan
Switches == Readable \union {"aruba"}
Gates == {"unifi", "aws_sg", "azure_nsg", "gcp_vpc"}
Vlans == {"office", "quarantine", "one"}

Init ==
  /\ enabled = {"firewall"} \union Methods
  /\ table = {} /\ blocks = <<>> /\ missed = {}
  /\ vlan = [d \in Devices |-> "office"]
  /\ open = [d \in Devices |-> TRUE]
  /\ registry = {} /\ drops = [d \in Devices |-> 0] /\ isolations = <<>>
  /\ job = [j \in Jobs |-> NoTask]
  /\ requests = 0 /\ faults = 0 /\ mixed = {}

At(j, pc) == job[j] # NoTask /\ job[j].pc = pc
Begin(j, t) == /\ job[j] = NoTask /\ requests < MaxRequests
               /\ requests' = requests + 1 /\ job' = [job EXCEPT ![j] = t]
Goto(j, t) == job' = [job EXCEPT ![j] = t]
End(j) == job' = [job EXCEPT ![j] = NoTask]
Fault == faults < MaxFaults /\ faults' = faults + 1

-----------------------------------------------------------------------------
(* Blocks.                                                                 *)

(* The agent is asked for resets first and may or may not have sent some.  *)
(* A playbook always asks both.                                            *)
Block(j, h, by, enforcement, rst) ==
  /\ by = "playbook" => enforcement = "both"
  /\ enforcement = "firewall" => ~ rst
  /\ Begin(j, [pc |-> IF enforcement = "rst" THEN "record" ELSE "push", host |-> h,
               by |-> by, rst |-> rst, asked |-> FALSE, rule |-> FALSE])
  /\ UNCHANGED <<enabled, firewall, network, faults>>

(* push_block: every vendor keeps one entry per address.  A call that      *)
(* fails may have taken effect.                                            *)
PushBlock(j) ==
  /\ At(j, "push")
  /\ IF "firewall" \notin enabled
     THEN Goto(j, [job[j] EXCEPT !.pc = "record"]) /\ UNCHANGED <<table, missed, faults>>
     ELSE \/ /\ table' = table \union {job[j].host}
             /\ Goto(j, [job[j] EXCEPT !.pc = "record", !.asked = TRUE, !.rule = TRUE])
             /\ UNCHANGED <<missed, faults>>
          \/ /\ Fault
             /\ table' \in {table, table \union {job[j].host}}
             /\ missed' = missed \union {job[j].host}
             /\ Goto(j, [job[j] EXCEPT !.pc = "record", !.asked = TRUE])
  /\ UNCHANGED <<enabled, blocks, network, requests>>

(* block_actually_happened *)
BlockHappened_ResetOnly(j) == job[j].rst   \* mutant
BlockHappened(j) == job[j].rst \/ (job[j].asked /\ job[j].rule)

(* The row of a block.  Only the playbook asks whether anything was done.  *)
RecordBlock(j) ==
  /\ At(j, "record")
  /\ End(j)
  /\ \/ /\ job[j].by = "playbook" => BlockHappened(j)
        /\ blocks' = Append(blocks, [host |-> job[j].host, by |-> job[j].by,
                                     asked |-> job[j].asked, rule |-> job[j].rule,
                                     rst |-> job[j].rst, status |-> "active"])
        /\ UNCHANGED <<missed, faults>>
     \/ /\ job[j].by = "playbook" /\ ~ BlockHappened(j)
        /\ UNCHANGED <<blocks, missed, faults>>
     \/ /\ job[j].by = "playbook" => BlockHappened(j)
        /\ Fault /\ missed' = missed \union {job[j].host}
        /\ UNCHANGED blocks
  /\ UNCHANGED <<enabled, table, network, requests>>

Listed(i) == Len(blocks) - i < ListLimit

(* revoke_active_block: the row is found among the newest, then it is      *)
(* revoked, found or not; what it enforced is undone afterwards.           *)
RevokeBlock(j, i) ==
  /\ i \in DOMAIN blocks
  /\ IF Listed(i)
     THEN Begin(j, [pc |-> "revoke", host |-> blocks[i].host, asked |-> blocks[i].asked])
          /\ UNCHANGED missed
     ELSE /\ job[j] = NoTask /\ requests < MaxRequests /\ requests' = requests + 1
          /\ missed' = missed \union {blocks[i].host}
          /\ UNCHANGED job
  /\ blocks' = [blocks EXCEPT ![i].status = "revoked"]
  /\ UNCHANGED <<enabled, table, network, faults>>

RevokeRule(j) == job[j].asked /\ "firewall" \in enabled

UndoBlock(j) ==
  /\ At(j, "revoke")
  /\ End(j)
  /\ IF RevokeRule(j)
     THEN \/ table' = table \ {job[j].host} /\ UNCHANGED <<missed, faults>>
          \/ Fault /\ missed' = missed \union {job[j].host} /\ UNCHANGED table
     ELSE /\ missed' = IF job[j].asked /\ "firewall" \notin enabled
                       THEN missed \union {job[j].host} ELSE missed
          /\ UNCHANGED <<table, faults>>
  /\ UNCHANGED <<enabled, blocks, network, requests>>

-----------------------------------------------------------------------------
(* Isolations.                                                             *)

ActiveRows(d) == {i \in DOMAIN isolations : isolations[i].device = d /\ isolations[i].active}
InHand(d) == {j \in Jobs : job[j] # NoTask /\ "device" \in DOMAIN job[j] /\ job[j].device = d}
Mixed(d) == mixed' = mixed \union {d}

ReadsVlan(m) == m \in Switches

(* isolate_device_handler; a method without an integration is refused.     *)
Isolate(j, d, m) ==
  /\ m \in enabled
  /\ Begin(j, [pc |-> IF ReadsVlan(m) THEN "read" ELSE "enforce", device |-> d,
               method |-> m, saved |-> "one"])
  /\ IF ActiveRows(d) \union InHand(d) = {} THEN UNCHANGED mixed ELSE Mixed(d)
  /\ UNCHANGED <<enabled, firewall, vlan, open, registry, drops, isolations, faults>>

(* get_current_vlan before the port is moved: what cannot be read is 1.    *)
ReadVlan(j) ==
  LET d == job[j].device
  IN /\ At(j, "read")
     /\ \/ /\ Goto(j, [job[j] EXCEPT !.pc = "enforce",
                       !.saved = IF job[j].method \in Readable THEN vlan[d] ELSE "one"])
           /\ UNCHANGED <<mixed, faults>>
        \/ /\ job[j].method \in Readable
           /\ Fault /\ Mixed(d)
           /\ Goto(j, [job[j] EXCEPT !.pc = "enforce"])
     /\ UNCHANGED <<enabled, firewall, vlan, open, registry, drops, isolations, requests>>

(* The agent: a device already in the registry is left as it is.           *)
AgentIsolate(d) ==
  /\ registry' = registry \union {d}
  /\ drops' = IF d \in registry THEN drops ELSE [drops EXCEPT ![d] = @ + 1]
AgentRestore(d) ==
  /\ registry' = registry \ {d}
  /\ drops' = IF d \in registry THEN [drops EXCEPT ![d] = @ - 1] ELSE drops

Enforced(d, m) ==
  /\ IF m = "arp" THEN AgentIsolate(d) ELSE UNCHANGED <<registry, drops>>
  /\ vlan' = IF m \in Switches THEN [vlan EXCEPT ![d] = "quarantine"] ELSE vlan
  /\ open' = IF m \in Gates THEN [open EXCEPT ![d] = FALSE] ELSE open

Unchanged == UNCHANGED <<vlan, open, registry, drops>>

(* quarantine_device, push_cloud_deny or the agent; a failed call and a    *)
(* done one are stored alike.                                              *)
Enforce(j) ==
  /\ At(j, "enforce")
  /\ Goto(j, [job[j] EXCEPT !.pc = "store"])
  /\ \/ Enforced(job[j].device, job[j].method) /\ UNCHANGED <<mixed, faults>>
     \/ Fault /\ Mixed(job[j].device) /\ Unchanged
  /\ UNCHANGED <<enabled, firewall, isolations, requests>>

StoreIsolation(j) ==
  /\ At(j, "store")
  /\ End(j)
  /\ \/ /\ isolations' = Append(isolations, [device |-> job[j].device, method |-> job[j].method,
                                             saved |-> job[j].saved, active |-> TRUE])
        /\ UNCHANGED <<mixed, faults>>
     \/ Fault /\ Mixed(job[j].device) /\ UNCHANGED isolations
  /\ Unchanged /\ UNCHANGED <<enabled, firewall, requests>>

(* restore_isolation finds an active row and adds a row that replaces it.  *)
FindIsolation(j, i) ==
  /\ i \in DOMAIN isolations /\ isolations[i].active
  /\ Begin(j, [pc |-> "mark", row |-> i, device |-> isolations[i].device])
  /\ UNCHANGED <<enabled, firewall, network, faults>>

MarkRestored(j) ==
  /\ At(j, "mark")
  /\ \/ /\ isolations' = [isolations EXCEPT ![job[j].row].active = FALSE]
        /\ Goto(j, [job[j] EXCEPT !.pc = "undo"])
        /\ UNCHANGED faults
     \/ Fault /\ End(j) /\ UNCHANGED isolations
  /\ Unchanged /\ UNCHANGED <<enabled, firewall, mixed, requests>>

Restored(d, row) ==
  /\ IF row.method = "arp" THEN AgentRestore(d) ELSE UNCHANGED <<registry, drops>>
  /\ vlan' = IF row.method \in Switches THEN [vlan EXCEPT ![d] = row.saved] ELSE vlan
  /\ open' = IF row.method \in Gates THEN [open EXCEPT ![d] = TRUE] ELSE open

(* restore_device, revoke_cloud_deny or the agent; the answer is ignored.  *)
UndoIsolation(j) ==
  LET row == isolations[job[j].row]
  IN /\ At(j, "undo")
     /\ End(j)
     /\ \/ row.method \in enabled /\ Restored(row.device, row) /\ UNCHANGED <<mixed, faults>>
        \/ row.method \notin enabled /\ Mixed(row.device) /\ Unchanged /\ UNCHANGED faults
        \/ row.method \in enabled /\ Fault /\ Mixed(row.device) /\ Unchanged
     /\ UNCHANGED <<enabled, firewall, isolations, requests>>

-----------------------------------------------------------------------------
(* The agent's registry is in memory, its DROP rules are the kernel's.     *)
AgentRestarts ==
  /\ Fault
  /\ registry' = {} /\ mixed' = mixed \union registry
  /\ UNCHANGED <<enabled, firewall, vlan, open, drops, isolations, job, requests>>

Toggle(s) ==
  /\ Fault
  /\ s # "arp"
  /\ enabled' = IF s \in enabled THEN enabled \ {s} ELSE enabled \union {s}
  /\ UNCHANGED <<firewall, network, job, requests>>

Next ==
  \/ \E j \in Jobs :
       \/ \E h \in Hosts, by \in {"playbook", "analyst"}, rst \in BOOLEAN,
             enforcement \in {"rst", "firewall", "both"} : Block(j, h, by, enforcement, rst)
       \/ PushBlock(j) \/ RecordBlock(j) \/ UndoBlock(j)
       \/ \E i \in 1..MaxRequests : RevokeBlock(j, i) \/ FindIsolation(j, i)
       \/ \E d \in Devices, m \in Methods : Isolate(j, d, m)
       \/ ReadVlan(j) \/ Enforce(j) \/ StoreIsolation(j) \/ MarkRestored(j) \/ UndoIsolation(j)
  \/ AgentRestarts
  \/ \E s \in {"firewall"} \union Methods : Toggle(s)

Spec == Init /\ [][Next]_vars

-----------------------------------------------------------------------------
(* Types of the state.                                                     *)
TypeOK ==
  /\ enabled \subseteq {"firewall"} \union Methods
  /\ table \subseteq Hosts /\ missed \subseteq Hosts /\ mixed \subseteq Devices
  /\ \A i \in DOMAIN blocks : blocks[i].host \in Hosts /\ blocks[i].status \in {"active", "revoked"}
  /\ vlan \in [Devices -> Vlans] /\ open \in [Devices -> BOOLEAN]
  /\ registry \subseteq Devices /\ drops \in [Devices -> Nat]
  /\ \A i \in DOMAIN isolations : isolations[i].device \in Devices /\ isolations[i].saved \in Vlans
  /\ requests \in 0..MaxRequests /\ faults \in 0..MaxFaults

Handled(h) == \E j \in Jobs : job[j] # NoTask /\ "host" \in DOMAIN job[j] /\ job[j].host = h

(* A host whose blocks are all revoked can be reached again: unless a call *)
(* failed or was left out, the firewall blocks only what an active row     *)
(* names or a task in progress deals with.                                 *)
RevokedIsFree ==
  \A h \in table :
    \/ h \in missed \/ Handled(h)
    \/ \E i \in DOMAIN blocks : blocks[i].host = h /\ blocks[i].status = "active"

LeftAlone(d) == ActiveRows(d) = {} /\ InHand(d) = {} /\ d \notin mixed
UsedMethods(d) == {isolations[i].method : i \in {k \in DOMAIN isolations : isolations[k].device = d}}
AsBefore(d) == vlan[d] = "office" /\ open[d] /\ drops[d] = 0

(* A device that was isolated once at a time, with no failed call, is as   *)
(* it was before its isolations once all are lifted, where the VLAN of its *)
(* port can be read.                                                       *)
LoneIsolationIsUndone ==
  \A d \in Devices : LeftAlone(d) /\ "aruba" \notin UsedMethods(d) => AsBefore(d)

(* Both: what was contained and is let go is as free as it was.            *)
ContainmentEnds == RevokedIsFree /\ LoneIsolationIsUndone

-----------------------------------------------------------------------------
(* Statements that this code does not keep: TLC finds a counterexample to  *)
(* each (README).                                                          *)

(* "Capture original VLAN before quarantine so restore works correctly":   *)
(* the VLAN of an Aruba port is never read, and 1 is restored.             *)
RestoreWorks == \A d \in Devices : LeftAlone(d) => AsBefore(d)

(* An active row tells of a host that is blocked: an analyst's block is    *)
(* stored whatever the calls answered, and revoking one of two blocks of a *)
(* host removes the entry that both share.                                 *)
ActiveIsBlocked ==
  \A i \in DOMAIN blocks :
    blocks[i].status = "active" => blocks[i].rst \/ (blocks[i].rule /\ blocks[i].host \in table)
=============================================================================
