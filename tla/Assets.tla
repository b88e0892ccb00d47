-------------------------------- MODULE Assets --------------------------------
(***************************************************************************)
(* The asset inventory.  Every writer of the assets table reads the row of *)
(* an address, changes fields of its own and inserts a whole new row; the  *)
(* table shows the row with the newest last_seen.  ARP goes through a hash *)
(* in Redis that a task flushes every 30 s.  What is learned of a device   *)
(* (system, role, ports, fingerprint) is one field.                        *)
(***************************************************************************)
EXTENDS Integers, FiniteSets

CONSTANTS
  Ips, Macs, Names,
  Jobs,
  NoMac, NoName, NoRow, NoJob,
  MaxTime,     \* bound on the clock
  MaxRows      \* bound on the inserts

VARIABLES
  now,
  rows,        \* ndr.assets, every version inserted
  hash,        \* ndr:asset of each address
  dirty,       \* ndr:assets_dirty
  job,         \* the tasks between their read and their insert
  wanted,      \* history: what the user last said of each address
  unclear      \* history: addresses whose writers overlapped, or that changed hands

vars == <<now, rows, hash, dirty, job, wanted, unclear>>

NoEntry == [mac |-> NoMac, seen |-> 0]
Fresh(ip, mac) == [ip |-> ip, mac |-> mac, name |-> NoName, learned |-> FALSE,
                   trusted |-> FALSE, flagged |-> FALSE, seen |-> now, seq |-> 0]

Init ==
  /\ now = 1
  /\ rows = {}
  /\ hash = [ip \in Ips |-> NoEntry] /\ dirty = {}
  /\ job = [j \in Jobs |-> NoJob]
  /\ wanted = [ip \in Ips |-> [trusted |-> FALSE, name |-> NoName]]
  /\ unclear = {}

-----------------------------------------------------------------------------
(* The table.                                                              *)

Newer(q, r) == q.seen > r.seen \/ (q.seen = r.seen /\ q.seq > r.seq)

(* get_asset_by_ip reads FINAL.                                            *)
ByIp(ip) ==
  LET R == {r \in rows : r.ip = ip}
  IN IF R = {} THEN NoRow ELSE CHOOSE r \in R : \A q \in R \ {r} : Newer(r, q)

(* get_asset_by_mac does not: of rows of one second it returns any.        *)
ByMac(mac) ==
  LET R == {r \in rows : r.mac = mac}
  IN IF R = {} THEN {NoRow} ELSE {r \in R : \A q \in R : q.seen <= r.seen}

(* upsert_asset.                                                           *)
Insert(row) == rows' = rows \union {[row EXCEPT !.seq = Cardinality(rows) + 1]}

-----------------------------------------------------------------------------
(* The writers: what each inserts, given the row r it read.                *)

(* What a row keeps of the one before.                                     *)
Keep_NotTrust(row, r) ==
  [row EXCEPT !.flagged = r.flagged, !.learned = @ \/ r.learned]   \* mutant
Keep(row, r) ==
  [row EXCEPT !.trusted = r.trusted, !.flagged = r.flagged, !.learned = @ \/ r.learned]

Dhcp(j, r) ==
  IF r = NoRow THEN job[j].row ELSE [Keep(job[j].row, r) EXCEPT !.name = r.name]

(* The flush task: the name is that of the hash, which has none.           *)
Flush(j, r) == IF r = NoRow THEN job[j].row ELSE Keep(job[j].row, r)

(* A packet of the address, or a row with the address alone.               *)
LastSeen(j, r) == IF r = NoRow THEN Fresh(job[j].ip, NoMac) ELSE [r EXCEPT !.seen = now]

(* Software, a user agent, a name of its own: seen now.  A fingerprint, a  *)
(* vendor or the enrichment: not seen.                                     *)
Learned(j, r) == [r EXCEPT !.learned = TRUE, !.seen = now]
Enriched(j, r) == [r EXCEPT !.learned = TRUE]

SetTrusted(j, r) ==
  [r EXCEPT !.trusted = job[j].value, !.flagged = IF job[j].value THEN FALSE ELSE @, !.seen = now]
SetName(j, r) == [r EXCEPT !.name = job[j].value, !.seen = now]

Kinds == {"dhcp", "flush", "seen", "learn", "enrich", "trust", "name"}
Written(j, r) ==
  CASE job[j].kind = "dhcp" -> Dhcp(j, r)
    [] job[j].kind = "flush" -> Flush(j, r)
    [] job[j].kind = "seen" -> LastSeen(j, r)
    [] job[j].kind = "learn" -> Learned(j, r)
    [] job[j].kind = "enrich" -> Enriched(j, r)
    [] job[j].kind = "trust" -> SetTrusted(j, r)
    [] job[j].kind = "name" -> SetName(j, r)

(* Only these insert a row where there is none.                            *)
Creates(kind) == kind \in {"dhcp", "flush", "seen"}

-----------------------------------------------------------------------------
(* Starting a task.                                                        *)

Start(j, kind, ip, row, value) ==
  /\ job[j] = NoJob
  /\ Cardinality(rows) + Cardinality({i \in Jobs : job[i] # NoJob}) < MaxRows
  /\ job' = [job EXCEPT ![j] = [pc |-> "read", kind |-> kind, ip |-> ip, row |-> row,
                                value |-> value, stale |-> FALSE]]
  /\ UNCHANGED <<now, rows, wanted, unclear>>

StartDhcp(j, ip, mac) == Start(j, "dhcp", ip, Fresh(ip, mac), NoName) /\ UNCHANGED <<hash, dirty>>

StartOther(j, kind, ip) ==
  /\ kind \in {"seen", "learn", "enrich"}
  /\ Start(j, kind, ip, NoRow, NoName) /\ UNCHANGED <<hash, dirty>>

(* set_asset_trusted and update_asset_name.                                *)
StartTrust(j, ip, b) == Start(j, "trust", ip, NoRow, b) /\ UNCHANGED <<hash, dirty>>
StartName(j, ip, n) == Start(j, "name", ip, NoRow, n) /\ UNCHANGED <<hash, dirty>>

(* An ARP packet goes to the hash.  The HIGH hit that a change of the      *)
(* hash's MAC address raises is left out.                                  *)
Arp(ip, mac) ==
  /\ hash' = [hash EXCEPT ![ip] = [mac |-> mac, seen |-> now]]
  /\ dirty' = dirty \union {ip}
  /\ UNCHANGED <<now, rows, job, wanted, unclear>>

(* The flush: SPOP, HGETALL, and nothing if the hash has expired.          *)
StartFlush(j, ip) ==
  /\ ip \in dirty /\ dirty' = dirty \ {ip}
  /\ hash[ip] # NoEntry
  /\ Start(j, "flush", ip, [Fresh(ip, hash[ip].mac) EXCEPT !.seen = hash[ip].seen], NoName)
  /\ UNCHANGED hash

Expire(ip) ==
  /\ hash[ip] # NoEntry
  /\ hash' = [hash EXCEPT ![ip] = NoEntry]
  /\ UNCHANGED <<now, rows, dirty, job, wanted, unclear>>

-----------------------------------------------------------------------------
(* The read and the insert.                                                *)

ReadBy(j) == IF job[j].kind = "dhcp" THEN ByMac(job[j].row.mac) ELSE {ByIp(job[j].ip)}

(* What came from another address or another second's version, or is of    *)
(* another device.                                                         *)
ChangesHands(j, r) ==
  job[j].kind = "dhcp" /\ ByIp(job[j].ip) # r

Read(j) ==
  /\ job[j] # NoJob /\ job[j].pc = "read"
  /\ \E r \in ReadBy(j) :
       IF r = NoRow /\ ~ Creates(job[j].kind)
       THEN job' = [job EXCEPT ![j] = NoJob] /\ UNCHANGED unclear
       ELSE /\ job' = [job EXCEPT ![j].pc = "write", ![j].row = Written(j, r)]
            /\ unclear' = IF ChangesHands(j, r) THEN unclear \union {job[j].ip} ELSE unclear
  /\ UNCHANGED <<now, rows, hash, dirty, wanted>>

Said(j) ==
  LET w == wanted[job[j].ip] IN
  CASE job[j].kind = "trust" -> [w EXCEPT !.trusted = job[j].value]
    [] job[j].kind = "name" -> [w EXCEPT !.name = job[j].value]
    [] OTHER -> w

Write(j) ==
  LET ip == job[j].ip IN
  /\ job[j] # NoJob /\ job[j].pc = "write"
  /\ Insert(job[j].row)
  /\ job' = [i \in Jobs |-> IF i = j THEN NoJob
                            ELSE IF job[i] # NoJob /\ job[i].pc = "write" /\ job[i].ip = ip
                                 THEN [job[i] EXCEPT !.stale = TRUE] ELSE job[i]]
  /\ wanted' = [wanted EXCEPT ![ip] = Said(j)]
  /\ unclear' = IF job[j].stale THEN unclear \union {ip} ELSE unclear
  /\ UNCHANGED <<now, hash, dirty>>

(* mark_assets_threat_flagged updates the rows there are.                  *)
Flag(ip) ==
  /\ rows' = {[r EXCEPT !.flagged = @ \/ r.ip = ip] : r \in rows}
  /\ UNCHANGED <<now, hash, dirty, job, wanted, unclear>>

-----------------------------------------------------------------------------
Tick ==
  /\ now < MaxTime /\ now' = now + 1
  /\ UNCHANGED <<rows, hash, dirty, job, wanted, unclear>>

Next ==
  \/ \E j \in Jobs, ip \in Ips :
       \/ \E mac \in Macs : StartDhcp(j, ip, mac)
       \/ \E kind \in Kinds : StartOther(j, kind, ip)
       \/ \E b \in BOOLEAN : StartTrust(j, ip, b)
       \/ \E n \in Names : StartName(j, ip, n)
       \/ StartFlush(j, ip)
  \/ \E j \in Jobs : Read(j) \/ Write(j)
  \/ \E ip \in Ips : \/ \E mac \in Macs : Arp(ip, mac)
                     \/ Expire(ip) \/ Flag(ip)
  \/ Tick

Spec == Init /\ [][Next]_vars

-----------------------------------------------------------------------------
(* Types of the state.                                                     *)
TypeOK ==
  /\ now \in 1..MaxTime /\ dirty \subseteq Ips /\ unclear \subseteq Ips
  /\ \A r \in rows : r.ip \in Ips /\ r.mac \in Macs \union {NoMac} /\ r.seen <= now
  /\ \A ip \in Ips : hash[ip].mac \in Macs \union {NoMac}

(* "Preserve user-set fields that the pipeline never overwrites"           *)
(* (consumer/mod.rs): an address is trusted if and only if the user last   *)
(* said so, whichever of the eight writers came after, unless two of them  *)
(* overlapped or the address went to another device.                       *)
Agrees(ip, field) == ByIp(ip) = NoRow \/ ip \in unclear \/ ByIp(ip)[field] = wanted[ip][field]
TrustIsKept == \A ip \in Ips : Agrees(ip, "trusted")

-----------------------------------------------------------------------------
(* Statements that this code does not keep: TLC finds a counterexample to  *)
(* each (README).                                                          *)

(* The name the user gave an asset stays, as its trust does: the flush of  *)
(* ARP entries inserts the row without it.                                 *)
NameIsKept == \A ip \in Ips : Agrees(ip, "name")

(* Trust stays even when two writers overlap: the one that read first puts *)
(* its old value back.                                                     *)
TrustIsNeverLost == \A ip \in Ips : ByIp(ip) # NoRow => ByIp(ip).trusted = wanted[ip].trusted
=============================================================================
