------------------------- MODULE SessionLifecycleProof -------------------------
(***************************************************************************)
(* Theorems about SessionLifecycle, for any number of sessions, topics and  *)
(* requests, and any caps.                                                  *)
(***************************************************************************)
EXTENDS SessionLifecycle, FiniteSetTheorems, TLAPS

(* What a request's place says of the rest of it.                           *)
Working(x) == x.at \notin {"idle", "done", "dead", "lost"}
OnRow == {"claim", "slot", "summarise", "call", "write", "seed", "reopen", "update",
          "prepare", "embed", "persist", "salvage", "aborted"}
InTurn == {"prepare", "embed", "persist", "salvage", "aborted"}

OpFits(x) ==
    /\ x.at = "idle" => x = Fresh
    /\ x.at \in {"claim", "seed", "insert"} => x.op = "create"
    /\ x.at \in {"summarise", "call", "write"} => x.op \in {"create", "end"}
    /\ x.at = "slot" => x.op \in {"create", "end", "chat"}
    /\ x.at \in InTurn => x.op = "chat"
    /\ x.at = "reopen" => x.op = "reopen"
    /\ x.at = "update" => x.op = "update"
    /\ x.op = "chat" => x.ends = 0
TopicFits(x) ==
    /\ x.at # "done" => x.told = "nothing"
    /\ Working(x) /\ x.op = "create" => x.topic \in Topics
    /\ Working(x) /\ x.op \in {"end", "chat", "reopen"} => x.topic = None
(* The calls made, those on the ledger, those in the open transaction.      *)
LedgerFits(x) ==
    /\ Working(x) /\ x.at \notin InTurn \cup {"write", "seed", "insert"} => x.made = 0
    /\ x.at \in {"prepare", "embed"} => x.made = 0
    /\ x.at \in {"slot", "prepare", "embed"} /\ x.op = "chat" => x.pend = 0
    /\ Working(x) /\ x.at \notin {"seed", "insert"} => x.booked = 0
    /\ x.at \in {"seed", "insert"} => x.booked = x.made
    /\ x.at = "persist" => x.pend = x.made
    /\ x.at = "done" => x.booked = x.made
SlotFits(x) ==
    /\ x.at \in {"claim", "slot", "reopen", "update"} => ~x.slot
    /\ x.at \in {"call"} \cup InTurn => x.slot
    /\ x.made = 1 => x.slot
    /\ x.at = "done" /\ x.op = "chat" /\ x.slot => x.kept
Fits(x) == OpFits(x) /\ TopicFits(x) /\ LedgerFits(x) /\ SlotFits(x)

(* A request works on a row that exists ...                                 *)
Rooted(x) == x.at \in OnRow => x.sid \in Sids /\ Exists(x.sid)
(* ... and the life it ended is over.                                       *)
Ended(x) == x.ends > 0 =>
    /\ x.sid \in Sids /\ Exists(x.sid)
    /\ x.ends <= sess[x.sid].life
    /\ x.ends = sess[x.sid].life => ~sess[x.sid].active

(* One end per life.                                                        *)
OneEnd == \A r, q \in Reqs :
    req[r].ends > 0 /\ req[q].ends = req[r].ends /\ req[q].sid = req[r].sid => r = q

Slotted == {r \in Reqs : req[r].slot}
SlotsCounted == Cardinality(Slotted) = used

Inv == /\ TypeOK
       /\ \A r \in Reqs : Fits(req[r]) /\ Rooted(req[r]) /\ Ended(req[r])
       /\ OneEnd
       /\ SlotsCounted

-----------------------------------------------------------------------------
(* What a step may do to the rows: none vanishes, a life that is over stays *)
(* over.                                                                    *)
Grows == \A s \in Sids : Exists(s) =>
    /\ Exists(s)'
    /\ sess'[s].life >= sess[s].life
    /\ sess'[s].life = sess[s].life /\ ~sess[s].active => ~sess'[s].active

(* The request's record becomes x; its end, if it has one, stays the same.  *)
SameEnd(r, x) == x.ends = 0 \/ (x.ends = req[r].ends /\ x.sid = req[r].sid)
SlotStep(r, x) ==
    \/ x.slot = req[r].slot /\ used' = used
    \/ x.slot /\ ~req[r].slot /\ used' = used + 1 /\ used < DailyCap

LEMMA SlotsStep == 
    ASSUME Inv, NEW r \in Reqs, NEW x \in Request, Become(r, x), SlotStep(r, x)
    PROVE  SlotsCounted' /\ used' \in 0 .. DailyCap
<1>0. IsFiniteSet(Slotted) /\ DailyCap \in Nat /\ used \in 0 .. DailyCap
      /\ req \in [Reqs -> Request] /\ Cardinality(Slotted) = used
    BY LifecycleOK, FS_Subset DEF Slotted, Inv, TypeOK, SlotsCounted
<1>1. CASE x.slot = req[r].slot /\ used' = used
  <2>1. Slotted' = Slotted  BY <1>0, <1>1 DEF Slotted, Become
  <2> QED  BY <2>1, <1>0, <1>1 DEF SlotsCounted
<1>2. CASE x.slot /\ ~req[r].slot /\ used' = used + 1 /\ used < DailyCap
  <2>1. Slotted' = Slotted \cup {r} /\ r \notin Slotted  BY <1>0, <1>2 DEF Slotted, Become
  <2>2. Cardinality(Slotted') = Cardinality(Slotted) + 1  BY <2>1, <1>0, FS_AddElement
  <2> QED  BY <2>2, <1>0, <1>2 DEF SlotsCounted
<1> QED  BY <1>1, <1>2 DEF SlotStep

(* The invariant, but for the claim of an end, follows from what the step   *)
(* does to one record and to the rows.                                      *)
Typed == sess' \in [Sids -> Row \cup {None}] /\ user' \in {"absent", "given", "not given"}
LEMMA EndedStays ==
    ASSUME Inv, Typed, Grows, NEW y \in Request, Ended(y)
    PROVE  Ended(y)'
<1> SUFFICES ASSUME y.ends > 0 PROVE Ended(y)'
    BY DEF Ended
<1>1. y.sid \in Sids /\ Exists(y.sid) /\ sess[y.sid] \in Row /\ y.ends \in Nat
      /\ y.ends <= sess[y.sid].life /\ (y.ends = sess[y.sid].life => ~sess[y.sid].active)
    BY DEF Ended, Inv, TypeOK, Exists, Request
<1>2. /\ Exists(y.sid)' /\ sess'[y.sid] \in Row
      /\ sess'[y.sid].life >= sess[y.sid].life
      /\ sess'[y.sid].life = sess[y.sid].life /\ ~sess[y.sid].active => ~sess'[y.sid].active
    BY <1>1 DEF Grows, Typed, Exists
<1>3. sess[y.sid].life \in Nat /\ sess'[y.sid].life \in Nat
    BY <1>1, <1>2 DEF Row
<1> QED  BY <1>1, <1>2, <1>3 DEF Ended

LEMMA KeptButEnd ==
    ASSUME Inv, NEW r \in Reqs, NEW x \in Request, Become(r, x), SlotStep(r, x),
           Typed, Grows, Fits(x), Rooted(x)', Ended(x)', OneEnd'
    PROVE  Inv'
<1>1. req \in [Reqs -> Request] /\ req' \in [Reqs -> Request]
      /\ req'[r] = x /\ \A q \in Reqs \ {r} : req'[q] = req[q]
    BY DEF Inv, TypeOK, Become
<1>2. TypeOK' /\ SlotsCounted'
    BY <1>1, SlotsStep DEF TypeOK, Typed
<1>3. \A q \in Reqs : Fits(req[q])'
    BY <1>1 DEF Inv, Fits, OpFits, TopicFits, LedgerFits, SlotFits, Working
<1>4. \A q \in Reqs : Rooted(req[q])'
    BY <1>1 DEF Inv, Rooted, Grows
<1>5. \A q \in Reqs : Ended(req[q])'
    BY <1>1, EndedStays DEF Inv, Ended
<1> QED  BY <1>2, <1>3, <1>4, <1>5 DEF Inv

LEMMA Kept ==
    ASSUME Inv, NEW r \in Reqs, NEW x \in Request, Become(r, x), SlotStep(r, x),
           Typed, Grows, Fits(x), Rooted(x)', SameEnd(r, x)
    PROVE  Inv'
<1>1. Ended(x)
    BY DEF SameEnd, Inv, Ended
<1>2. req \in [Reqs -> Request] /\ req'[r] = x /\ \A q \in Reqs \ {r} : req'[q] = req[q]
    BY DEF Inv, TypeOK, Become
<1>3. OneEnd'
    BY <1>2 DEF OneEnd, Inv, SameEnd
<1> QED  BY <1>1, <1>3, EndedStays, KeptButEnd

-----------------------------------------------------------------------------
(* The records the actions build.                                           *)

LEMMA FreshRequest == Fresh \in Request
BY DEF Fresh, Request, Ops, Labels, Summaries, Replies, Pins

Same4(x, y) == x.op = y.op /\ x.slot = y.slot /\ x.made = y.made /\ x.booked = y.booked
LEMMA ToldIs ==
    ASSUME NEW old \in Request, NEW t \in Topics \cup {None}, NEW reply \in Replies
    PROVE  LET x == Told(old, t, reply)
           IN  /\ x \in Request /\ x.at = "done" /\ x.topic = t /\ x.told = reply
               /\ Same4(x, old) /\ x.ends = old.ends /\ x.kept = old.kept
               /\ x.ends > 0 => x.sid = old.sid
<1>1. PICK y : y = Told(old, t, reply)  OBVIOUS
<1>2. y = [op |-> old.op, at |-> "done", sid |-> IF old.ends > 0 THEN old.sid ELSE None,
           topic |-> t, pin |-> "keep", ends |-> old.ends, slot |-> old.slot, seed |-> None,
           made |-> old.made, pend |-> 0, booked |-> old.booked, kept |-> old.kept,
           told |-> reply, consent |-> "absent"]
    BY <1>1 DEF Told, Over, Request
<1>3. y \in Request
  <2>1. (IF old.ends > 0 THEN old.sid ELSE None) \in Sids \cup {None}
      BY DEF Request
  <2>2. 0 \in 0 .. 1 /\ None \in Summaries /\ "done" \in Labels /\ "absent" \in {"absent", "given", "not given"}
      BY DEF Summaries, Labels
  <2> QED  BY <1>2, <2>1, <2>2 DEF Request, Pins
<1> QED  BY <1>1, <1>2, <1>3 DEF Same4

LEMMA OverIs ==
    ASSUME NEW old \in Request, NEW where \in {"dead", "lost"}
    PROVE  LET x == Over(old, where)
           IN  /\ x \in Request /\ x.at = where /\ x.topic = old.topic /\ x.told = old.told
               /\ Same4(x, old) /\ x.ends = old.ends /\ x.kept = old.kept
               /\ x.ends > 0 => x.sid = old.sid
<1>1. PICK y : y = Over(old, where)  OBVIOUS
<1>2. y = [op |-> old.op, at |-> where, sid |-> IF old.ends > 0 THEN old.sid ELSE None,
           topic |-> old.topic, pin |-> "keep", ends |-> old.ends, slot |-> old.slot,
           seed |-> None, made |-> old.made, pend |-> 0, booked |-> old.booked,
           kept |-> old.kept, told |-> old.told, consent |-> "absent"]
    BY <1>1 DEF Over, Request
<1>3. y \in Request
  <2>1. (IF old.ends > 0 THEN old.sid ELSE None) \in Sids \cup {None}
      BY DEF Request
  <2>2. 0 \in 0 .. 1 /\ None \in Summaries /\ where \in Labels /\ "absent" \in {"absent", "given", "not given"}
      BY DEF Summaries, Labels
  <2> QED  BY <1>2, <2>1, <2>2 DEF Request, Pins
<1> QED  BY <1>1, <1>2, <1>3 DEF Same4

(* A request that is told something and ends: what fits before fits after.  *)
LEMMA ToldKeeps ==
    ASSUME Inv, NEW r \in Reqs, NEW old \in Request, NEW t \in Topics \cup {None},
           NEW reply \in Replies, Become(r, Told(old, t, reply)),
           old.booked = old.made, old.made = 1 => old.slot,
           old.op = "chat" /\ old.slot => old.kept,
           old.op = "chat" => old.ends = 0,
           old.slot = req[r].slot, used' = used, SameEnd(r, old), Typed, Grows
    PROVE  Inv'
<1> DEFINE x == Told(old, t, reply)
<1>1. /\ x \in Request /\ x.at = "done" /\ x.topic = t /\ x.told = reply
      /\ Same4(x, old) /\ x.ends = old.ends /\ x.kept = old.kept
      /\ x.ends > 0 => x.sid = old.sid
    BY ToldIs
<1> HIDE DEF x
<1>2. Fits(x)
    BY <1>1 DEF Fits, OpFits, TopicFits, LedgerFits, SlotFits, Working, InTurn, Same4
<1>3. SlotStep(r, x) /\ Rooted(x)'
    BY <1>1 DEF SlotStep, Rooted, OnRow, Same4
<1>4. SameEnd(r, x)
  <2>1. x.ends \in Nat  BY <1>1 DEF Request
  <2> QED  BY <2>1, <1>1 DEF SameEnd
<1>5. Become(r, x)  BY DEF x
<1> QED  BY <1>1, <1>2, <1>3, <1>4, <1>5, Kept

LEMMA Stays ==
    ASSUME Inv, UNCHANGED <<sess, user>>
    PROVE  Typed /\ Grows /\ \A s : Exists(s)' = Exists(s)
<1>1. \A s \in Sids : Exists(s) => sess[s] \in Row  BY DEF Inv, TypeOK, Exists
<1>2. \A s \in Sids : Exists(s) => sess[s].life \in Nat  BY <1>1 DEF Row
<1>3. Typed /\ \A s : Exists(s)' = Exists(s)  BY DEF Inv, TypeOK, Typed, Exists
<1>4. sess' = sess  OBVIOUS
<1>5. Grows  BY <1>2, <1>3, <1>4 DEF Grows
<1> QED  BY <1>3, <1>5

(* The record of a request before it has done anything.                     *)
LEMMA Blank ==
    ASSUME Inv, NEW r \in Reqs, At(r) = "idle"
    PROVE  req[r] = Fresh
BY DEF Inv, Fits, OpFits, At
(* A request takes up its work: nothing ended, nothing spent.               *)
Opened(x, op) == /\ x \in Request /\ x.op = op /\ x.ends = 0 /\ x.slot = FALSE
                 /\ x.made = 0 /\ x.pend = 0 /\ x.booked = 0 /\ x.told = "nothing"
OpenAt == {"claim", "seed", "insert", "slot", "reopen", "update"}
LEMMA OpenKeeps ==
    ASSUME Inv, NEW r \in Reqs, At(r) = "idle", UNCHANGED <<sess, used, user>>,
           NEW op \in Ops, NEW x, Opened(x, op), Become(r, x),
           x.at \in OpenAt,
           x.at \in {"claim", "seed", "insert"} => op = "create" /\ x.topic \in Topics,
           x.at = "slot" => op = "chat" /\ x.topic = None,
           x.at = "reopen" => op = "reopen" /\ x.topic = None,
           x.at = "update" => op = "update",
           x.at # "insert" => x.sid \in Sids /\ Exists(x.sid)
    PROVE  Inv'
<1>1. req[r] = Fresh  BY Blank
<1>2. Fits(x)
  <2>1. OpFits(x)  BY DEF OpFits, Opened, OpenAt, InTurn
  <2>2. TopicFits(x)  BY DEF TopicFits, Opened, OpenAt, Working
  <2>3. LedgerFits(x)  BY DEF LedgerFits, Opened, OpenAt, Working, InTurn
  <2>4. SlotFits(x)  BY DEF SlotFits, Opened, OpenAt, InTurn
  <2> QED  BY <2>1, <2>2, <2>3, <2>4 DEF Fits
<1>3. SlotStep(r, x)
  <2>1. Fresh.slot = FALSE  BY DEF Fresh
  <2>2. x.slot = req[r].slot  BY <1>1, <2>1, Zenon DEF Opened
  <2> QED  BY <2>2 DEF SlotStep
<1>4. SameEnd(r, x) /\ x \in Request  BY DEF SameEnd, Opened
<1>5. Rooted(x)'  BY Stays DEF Rooted, OpenAt, OnRow
<1> QED  BY <1>2, <1>3, <1>4, <1>5, Kept, Stays

LEMMA OpenTold ==
    ASSUME Inv, NEW r \in Reqs, At(r) = "idle", UNCHANGED <<sess, used, user>>,
           NEW op \in Ops, NEW x, Opened(x, op),
           NEW t \in Topics \cup {None}, NEW reply \in Replies, Become(r, Told(x, t, reply))
    PROVE  Inv'
<1>1. req[r] = Fresh  BY Blank
<1>2. x.slot = req[r].slot /\ SameEnd(r, x) /\ x \in Request
  <2>1. Fresh.slot = FALSE  BY DEF Fresh
  <2> QED  BY <1>1, <2>1, Zenon DEF Opened, SameEnd
<1> QED  BY <1>2, ToldKeeps, Stays DEF Opened

LEMMA CreateKeeps == ASSUME Inv, NEW r \in Reqs, Create(r) PROVE Inv'
<1>1. At(r) = "idle" /\ UNCHANGED <<sess, used, user>>  BY DEF Create
<1>2. PICK t \in Topics, p \in Sids \cup {None}, claim \in {"given", "not given"} :
        LET new == [Fresh EXCEPT !.op = "create", !.sid = p, !.topic = t,
                                 !.consent = NewUser(r, claim)]
        IN  Become(r, IF Rivals(t, p) # {} THEN Told(new, t, "duplicate")
                      ELSE IF p = None THEN [new EXCEPT !.at = "insert"]
                      ELSE IF ~Exists(p) THEN Told(new, None, "other")
                      ELSE [new EXCEPT !.at = IF Active(p) THEN "claim" ELSE "seed"])
    BY DEF Create
<1> DEFINE new == [Fresh EXCEPT !.op = "create", !.sid = p, !.topic = t,
                                !.consent = NewUser(r, claim)]
<1>3. Opened(new, "create") /\ new.topic = t /\ new.sid = p /\ "create" \in Ops
  <2>1. NewUser(r, claim) \in {"absent", "given", "not given"}  BY DEF NewUser
  <2> QED  BY <2>1, FreshRequest DEF Opened, Fresh, Request, Ops
<1>4. \A at \in OpenAt : LET x == [new EXCEPT !.at = at]
                         IN  Opened(x, "create") /\ x.at = at /\ x.topic = t /\ x.sid = p
  <2> SUFFICES ASSUME NEW at \in OpenAt
               PROVE  LET x == [new EXCEPT !.at = at]
                      IN  Opened(x, "create") /\ x.at = at /\ x.topic = t /\ x.sid = p
      OBVIOUS
  <2>1. at \in Labels  BY DEF OpenAt, Labels
  <2> QED  BY <1>3, <2>1 DEF Opened, Request
<1> HIDE DEF new
<1>5. CASE Rivals(t, p) # {}
  <2>1. Become(r, Told(new, t, "duplicate"))  BY <1>2, <1>5 DEF new
  <2> QED  BY <2>1, <1>1, <1>3, OpenTold DEF Replies
<1>6. CASE Rivals(t, p) = {} /\ p = None
  <2>1. Become(r, [new EXCEPT !.at = "insert"])  BY <1>2, <1>6 DEF new
  <2>2. PICK x : x = [new EXCEPT !.at = "insert"]  OBVIOUS
  <2>3. Opened(x, "create") /\ x.at = "insert" /\ x.topic = t  BY <2>2, <1>4 DEF OpenAt
  <2> QED  BY <2>1, <2>2, <2>3, <1>1, <1>3, OpenKeeps DEF OpenAt
<1>7. CASE Rivals(t, p) = {} /\ p # None /\ ~Exists(p)
  <2>1. Become(r, Told(new, None, "other"))  BY <1>2, <1>7 DEF new
  <2> QED  BY <2>1, <1>1, <1>3, OpenTold DEF Replies
<1>8. CASE Rivals(t, p) = {} /\ p # None /\ Exists(p)
  <2>1. PICK at \in {"claim", "seed"} : Become(r, [new EXCEPT !.at = at])
      BY <1>2, <1>8 DEF new
  <2>2. PICK x : x = [new EXCEPT !.at = at]  OBVIOUS
  <2>3. Opened(x, "create") /\ x.at = at /\ x.topic = t /\ x.sid = p
      BY <2>2, <1>4 DEF OpenAt
  <2> QED  BY <2>1, <2>2, <2>3, <1>1, <1>3, <1>8, OpenKeeps DEF OpenAt
<1> QED  BY <1>5, <1>6, <1>7, <1>8

(* A step inside a request that leaves the rows alone.                      *)
LEMMA StepKeeps ==
    ASSUME Inv, NEW r \in Reqs, UNCHANGED <<sess, user>>, NEW x \in Request, Become(r, x),
           Fits(x), x.ends = req[r].ends, x.sid = req[r].sid, SlotStep(r, x),
           At(r) \in OnRow \/ x.at \notin OnRow
    PROVE  Inv'
<1>1. SameEnd(r, x)  BY DEF SameEnd
<1>2. Rooted(req[r])  BY DEF Inv
<1>3. Rooted(x)'  BY <1>2, Stays DEF Rooted, At
<1> QED  BY <1>1, <1>3, Stays, Kept

(* What the actions start from.                                             *)
LEMMA Before ==
    ASSUME Inv, NEW r \in Reqs
    PROVE  /\ req[r] \in Request /\ Fits(req[r]) /\ Rooted(req[r]) /\ Ended(req[r])
           /\ SameEnd(r, req[r])
           /\ \A s \in Sids : Exists(s) => sess[s] \in Row
BY DEF Inv, TypeOK, SameEnd, Exists

LEMMA NotLess == \A n \in Nat : n >= n
OBVIOUS

LEMMA NotMore == \A n \in Nat : n = 0 => ~(n > 0)
OBVIOUS

(* A step that writes one row.                                              *)
LEMMA OneRow ==
    ASSUME Inv, NEW s \in Sids, NEW row \in Row, sess' = [sess EXCEPT ![s] = row],
           user' \in {"absent", "given", "not given"},
           Exists(s) => /\ row.life >= sess[s].life
                        /\ row.life = sess[s].life /\ ~sess[s].active => ~row.active
    PROVE  /\ Typed /\ Grows /\ sess'[s] = row /\ Exists(s)'
           /\ \A z \in Sids : Exists(z) => Exists(z)'
<1>1. sess \in [Sids -> Row \cup {None}] /\ sess'[s] = row
      /\ \A z \in Sids \ {s} : sess'[z] = sess[z]
    BY DEF Inv, TypeOK
<1>2. Exists(s)' /\ \A z \in Sids : Exists(z) => Exists(z)'
    BY <1>1, NoneOK DEF Exists
<1>3. \A z \in Sids : Exists(z) => sess[z].life \in Nat
  <2>1. \A z \in Sids : Exists(z) => sess[z] \in Row  BY <1>1 DEF Exists
  <2> QED  BY <2>1 DEF Row
<1>4. Typed  BY <1>1 DEF Typed, Inv, TypeOK
<1>5. Grows
  <2> SUFFICES ASSUME NEW z \in Sids, Exists(z)
               PROVE  /\ Exists(z)' /\ sess'[z].life >= sess[z].life
                      /\ sess'[z].life = sess[z].life /\ ~sess[z].active => ~sess'[z].active
      BY DEF Grows
  <2>1. CASE z = s  BY <2>1, <1>1, <1>2
  <2>2. CASE z # s
    <3>1. sess'[z] = sess[z] /\ Exists(z)'  BY <2>2, <1>1, <1>2
    <3>2. sess[z].life \in Nat  BY <1>3
    <3>3. sess[z].life >= sess[z].life  BY <3>2, NotLess
    <3> QED  BY <3>1, <3>3
  <2> QED  BY <2>1, <2>2
<1> QED  BY <1>1, <1>2, <1>4, <1>5

LEMMA ClaimKeeps ==
    ASSUME Inv, NEW r \in Reqs, NEW s \in Sids, Active(s),
           sess' = [sess EXCEPT ![s].active = FALSE], UNCHANGED <<used, user>>,
           NEW x \in Request, Become(r, x), Fits(x), x.slot = req[r].slot,
           x.sid = s, x.ends = sess[s].life
    PROVE  Inv'
<1>1. /\ sess \in [Sids -> Row \cup {None}] /\ sess[s] \in Row /\ sess[s].active
      /\ sess[s].life \in Nat
  <2>1. sess[s] \in Row  BY Before DEF Active
  <2> QED  BY <2>1 DEF Inv, TypeOK, Active, Row
<1>2. PICK row \in Row : /\ sess'[s] = row /\ row.life = sess[s].life /\ row.active = FALSE
                         /\ sess' = [sess EXCEPT ![s] = row]
  <2>1. [sess[s] EXCEPT !.active = FALSE] \in Row  BY <1>1 DEF Row
  <2> QED  BY <1>1, <2>1 DEF Row
<1>3. user' \in {"absent", "given", "not given"} /\ sess[s].life >= sess[s].life
    BY <1>1, NotLess DEF Inv, TypeOK
<1>4. Typed /\ Grows /\ sess'[s] = row /\ Exists(s)'
  <2>1. ~row.active  BY <1>2
  <2> QED  BY <1>2, <1>3, <2>1, OneRow, ZenonT(40)
<1>6. Exists(s)' /\ sess'[s].life = sess[s].life /\ sess'[s].active = FALSE
    BY <1>2, <1>4
<1>7. Ended(x)' /\ Rooted(x)'
    BY <1>1, <1>6 DEF Ended, Rooted
<1>8. \A q \in Reqs : req[q].ends > 0 /\ req[q].sid = s => req[q].ends # sess[s].life
    BY <1>1, Before DEF Ended
<1>9. req \in [Reqs -> Request] /\ req'[r] = x /\ \A q \in Reqs \ {r} : req'[q] = req[q]
    BY DEF Inv, TypeOK, Become
<1>10. OneEnd'
    BY <1>8, <1>9 DEF OneEnd, Inv
<1>11. SlotStep(r, x)  BY DEF SlotStep
<1> QED  BY <1>4, <1>7, <1>10, <1>11, KeptButEnd

LEMMA ClaimPriorKeeps == ASSUME Inv, NEW r \in Reqs, ClaimPrior(r) PROVE Inv'
<1> DEFINE old == req[r]
<1>1. /\ old \in Request /\ Fits(old) /\ old.at = "claim" /\ old.op = "create"
      /\ old.sid \in Sids /\ old.topic \in Topics /\ old.told = "nothing"
      /\ old.made = 0 /\ old.booked = 0 /\ ~old.slot
    BY Before DEF ClaimPrior, At, Fits, OpFits, TopicFits, LedgerFits, SlotFits, Working,
                  Rooted, OnRow, InTurn
<1>2. CASE Claimable(old.sid)
  <2>1. PICK x : x = [old EXCEPT !.at = "slot", !.ends = sess[old.sid].life]  OBVIOUS
  <2>2. sess' = [sess EXCEPT ![old.sid].active = FALSE] /\ Become(r, x)
        /\ UNCHANGED <<used, user>> /\ Active(old.sid)
      BY <1>2, <2>1 DEF ClaimPrior, ClaimEnd, Claimable
  <2>3. sess[old.sid].life \in Nat  BY <1>1, <2>2, Before DEF Active, Row
  <2>4. /\ x \in Request /\ x.at = "slot" /\ x.op = "create" /\ x.sid = old.sid
        /\ x.topic = old.topic /\ x.told = old.told /\ x.made = old.made
        /\ x.booked = old.booked /\ x.slot = old.slot /\ x.ends = sess[old.sid].life
      BY <1>1, <2>1, <2>3 DEF Request, Labels
  <2>5. Fits(x)
      BY <1>1, <2>4 DEF Fits, OpFits, TopicFits, LedgerFits, SlotFits, Working, InTurn
  <2> QED  BY <1>1, <2>2, <2>4, <2>5, ClaimKeeps
<1>3. CASE ~Claimable(old.sid)
  <2>1. PICK x : x = [old EXCEPT !.at = "seed"]  OBVIOUS
  <2>2. Become(r, x) /\ UNCHANGED <<sess, used, user>>
      BY <1>1, <1>3, <2>1 DEF ClaimPrior, ClaimEnd
  <2>3. /\ x \in Request /\ x.at = "seed" /\ x.op = "create" /\ x.sid = old.sid
        /\ x.topic = old.topic /\ x.told = old.told /\ x.made = old.made
        /\ x.booked = old.booked /\ x.slot = old.slot /\ x.ends = old.ends
      BY <1>1, <2>1 DEF Request, Labels
  <2>4. Fits(x)
      BY <1>1, <2>3 DEF Fits, OpFits, TopicFits, LedgerFits, SlotFits, Working, InTurn
  <2> QED  BY <1>1, <2>2, <2>3, <2>4, StepKeeps DEF SlotStep, At, OnRow
<1> QED  BY <1>2, <1>3

(* What a request is, at a place it works at.                               *)
Worker(x) ==
    /\ x \in Request /\ x.told = "nothing" /\ x.made \in 0 .. 1 /\ x.slot \in BOOLEAN
    /\ x.made = 1 => x.slot
    /\ x.op = "create" => x.topic \in Topics
    /\ x.op \in {"end", "chat", "reopen"} => x.topic = None
    /\ x.op = "chat" => x.ends = 0
LEMMA AtWork ==
    ASSUME Inv, NEW r \in Reqs, At(r) \notin {"idle", "done", "dead", "lost"}
    PROVE  /\ Worker(req[r]) /\ Fits(req[r]) /\ SameEnd(r, req[r])
           /\ At(r) \in OnRow => req[r].sid \in Sids /\ Exists(req[r].sid)
<1>1. req[r] \in Request /\ Fits(req[r]) /\ Rooted(req[r]) /\ SameEnd(r, req[r])  BY Before
<1>2. req[r].made \in 0 .. 1 /\ req[r].slot \in BOOLEAN  BY <1>1 DEF Request
<1> QED  BY <1>1, <1>2 DEF Worker, At, Fits, OpFits, TopicFits, SlotFits, Rooted, Working

Like(x, old) == /\ Same4(x, old) /\ x.topic = old.topic /\ x.told = old.told
                /\ x.ends = old.ends /\ x.sid = old.sid /\ x.pend = old.pend
LEMMA GotoIs ==
    ASSUME NEW old \in Request, NEW where \in Labels
    PROVE  LET x == [old EXCEPT !.at = where]
           IN  x \in Request /\ x.at = where /\ Like(x, old)
BY DEF Request, Like, Same4

LEMMA SeedKeeps == ASSUME Inv, NEW r \in Reqs, Seed(r) PROVE Inv'
<1> DEFINE old == req[r]
<1>1. /\ Worker(old) /\ old.at = "seed" /\ old.op = "create" /\ old.booked = old.made
      /\ sess[old.sid].summary \in Summaries /\ old.made \in 0 .. 1
  <2>1. Worker(old) /\ Fits(old) /\ old.sid \in Sids /\ Exists(old.sid) /\ old.at = "seed"
      BY AtWork DEF Seed, At, OnRow
  <2>2. sess[old.sid] \in Row  BY <2>1, Before
  <2> QED  BY <2>1, <2>2 DEF Fits, OpFits, LedgerFits, Row, Worker
<1>2. PICK x : x = [old EXCEPT !.at = "insert", !.seed = sess[old.sid].summary]  OBVIOUS
<1>3. x \in Request /\ x.at = "insert" /\ Like(x, old)
    BY <1>1, <1>2 DEF Worker, Request, Labels, Like, Same4
<1>4. Fits(x)
    BY <1>1, <1>3 DEF Worker, Like, Same4, Fits, OpFits, TopicFits, LedgerFits, SlotFits,
                      Working, InTurn
<1> QED  BY <1>2, <1>3, <1>4, StepKeeps DEF Seed, SlotStep, Like, Same4, OnRow

LEMMA InsertKeeps == ASSUME Inv, NEW r \in Reqs, Insert(r) PROVE Inv'
<1> DEFINE old == req[r]
<1>1. /\ Worker(old) /\ old.at = "insert" /\ old.op = "create" /\ old.booked = old.made
      /\ old.topic \in Topics /\ old.seed \in Summaries /\ SameEnd(r, old)
      /\ old.consent \in {"absent", "given", "not given"} /\ old \in Request
  <2>1. Worker(old) /\ Fits(old) /\ old.at = "insert" /\ SameEnd(r, old)
      BY AtWork DEF Insert, At
  <2> QED  BY <2>1 DEF Fits, OpFits, LedgerFits, Worker, Request
<1>2. CASE IndexAllows(old.topic, None)
  <2>1. PICK s \in Sids : /\ ~Exists(s)
          /\ sess' = [sess EXCEPT ![s] = [topic |-> old.topic, active |-> TRUE, pinned |-> FALSE,
                                          talked |-> FALSE, life |-> 1, summary |-> old.seed]]
      BY <1>2 DEF Insert
  <2>2. PICK row \in Row : sess' = [sess EXCEPT ![s] = row]
    <3>1. [topic |-> old.topic, active |-> TRUE, pinned |-> FALSE, talked |-> FALSE,
           life |-> 1, summary |-> old.seed] \in Row
        BY <1>1 DEF Row
    <3> QED  BY <2>1, <3>1
  <2>3. user' \in {"absent", "given", "not given"}
      BY <1>1, <1>2 DEF Insert, Published, Inv, TypeOK
  <2>4. Typed /\ Grows  BY <2>1, <2>2, <2>3, OneRow
  <2>5. Become(r, Told(old, old.topic, "taken")) /\ used' = used  BY <1>2 DEF Insert
  <2> QED  BY <1>1, <2>4, <2>5, ToldKeeps DEF Worker, Replies
<1>3. CASE ~IndexAllows(old.topic, None)
  <2>1. Become(r, Told(old, old.topic, "duplicate")) /\ UNCHANGED <<sess, used, user>>
      BY <1>3 DEF Insert
  <2> QED  BY <1>1, <2>1, ToldKeeps, Stays DEF Worker, Replies
<1> QED  BY <1>2, <1>3

LEMMA EndKeeps == ASSUME Inv, NEW r \in Reqs, End(r) PROVE Inv'
<1>1. PICK s \in Sids : ClaimEnd(r, [Fresh EXCEPT !.op = "end", !.sid = s], s)
    BY DEF End
<1>2. PICK old : old = [Fresh EXCEPT !.op = "end", !.sid = s]  OBVIOUS
<1>3. Opened(old, "end") /\ old.topic = None /\ old.sid = s /\ "end" \in Ops /\ old \in Request
    BY <1>2, FreshRequest DEF Opened, Fresh, Request, Ops
<1>4. At(r) = "idle" /\ UNCHANGED <<used, user>> /\ ClaimEnd(r, old, s) /\ req[r] = Fresh
    BY <1>1, <1>2, Blank DEF End
<1>5. CASE Claimable(s)
  <2>1. PICK x : x = [old EXCEPT !.at = "slot", !.ends = sess[s].life]  OBVIOUS
  <2>2. sess' = [sess EXCEPT ![s].active = FALSE] /\ Become(r, x) /\ Active(s)
      BY <1>4, <1>5, <2>1 DEF ClaimEnd, Claimable
  <2>3. sess[s].life \in Nat  BY <2>2, Before DEF Active, Row
  <2>4. /\ x \in Request /\ x.at = "slot" /\ x.op = "end" /\ x.sid = s /\ x.topic = None
        /\ x.told = "nothing" /\ x.made = 0 /\ x.booked = 0 /\ x.slot = FALSE
        /\ x.ends = sess[s].life
      BY <1>3, <2>1, <2>3, ZenonT(40) DEF Request, Labels, Opened
  <2>5. Fits(x)
      BY <2>4 DEF Fits, OpFits, TopicFits, LedgerFits, SlotFits, Working, InTurn
  <2>6. x.slot = req[r].slot
    <3>1. Fresh.slot = FALSE  BY DEF Fresh
    <3> QED  BY <3>1, <2>4, <1>4, Zenon
  <2> QED  BY <1>4, <2>2, <2>4, <2>5, <2>6, ClaimKeeps
<1>6. CASE ~Claimable(s)
  <2>1. Become(r, Told(old, None, "other")) /\ UNCHANGED sess
      BY <1>3, <1>4, <1>6 DEF ClaimEnd, Opened
  <2> QED  BY <2>1, <1>3, <1>4, OpenTold DEF Replies
<1> QED  BY <1>5, <1>6

LEMMA TakeSlotKeeps == ASSUME Inv, NEW r \in Reqs, TakeSlot(r) PROVE Inv'
<1> DEFINE old == req[r]
<1>1. /\ Worker(old) /\ old.at = "slot" /\ old.made = 0 /\ old.booked = 0 /\ ~old.slot
      /\ old.op \in {"create", "end", "chat"} /\ SameEnd(r, old)
      /\ old.op = "chat" => old.pend = 0
      /\ At(r) \in OnRow
  <2>1. Worker(old) /\ Fits(old) /\ old.at = "slot" /\ SameEnd(r, old)
      BY AtWork DEF TakeSlot, At
  <2> QED  BY <2>1 DEF Fits, OpFits, LedgerFits, SlotFits, Working, InTurn, At, OnRow
<1>2. UNCHANGED <<sess, user>>  BY DEF TakeSlot
<1>3. CASE old.op = "chat" /\ ~SlotLeft
  <2>1. Become(r, Told(old, None, "other")) /\ used' = used
      BY <1>3 DEF TakeSlot
  <2> QED  BY <1>1, <1>2, <2>1, ToldKeeps, Stays DEF Worker, Replies
<1>4. CASE old.op = "chat" /\ SlotLeft
  <2>1. PICK x : x = [old EXCEPT !.at = "prepare", !.slot = TRUE]  OBVIOUS
  <2>2. Become(r, x) /\ used' = used + 1 /\ used < DailyCap
      BY <1>4, <2>1 DEF TakeSlot, SlotLeft
  <2>3. /\ x \in Request /\ x.at = "prepare" /\ x.op = "chat" /\ x.topic = old.topic
        /\ x.told = old.told /\ x.made = old.made /\ x.booked = old.booked /\ x.slot = TRUE
        /\ x.ends = old.ends /\ x.sid = old.sid /\ x.pend = 0
      BY <1>1, <1>4, <2>1 DEF Worker, Request, Labels
  <2>4. Fits(x)
      BY <1>1, <1>4, <2>3 DEF Worker, Fits, OpFits, TopicFits, LedgerFits, SlotFits, Working, InTurn
  <2> QED  BY <1>1, <1>2, <2>2, <2>3, <2>4, StepKeeps DEF SlotStep
<1>5. CASE old.op # "chat"
  <2>1. PICK x : x = [old EXCEPT !.at = "summarise", !.slot = SlotLeft]  OBVIOUS
  <2>2. Become(r, x) /\ used' = IF SlotLeft THEN used + 1 ELSE used
      BY <1>5, <2>1 DEF TakeSlot
  <2>3. /\ x \in Request /\ x.at = "summarise" /\ x.op = old.op /\ x.topic = old.topic
        /\ x.told = old.told /\ x.made = old.made /\ x.booked = old.booked
        /\ x.ends = old.ends /\ x.sid = old.sid
    <3>1. SlotLeft \in BOOLEAN  BY DEF SlotLeft
    <3> QED  BY <1>1, <2>1, <3>1 DEF Worker, Request, Labels
  <2>4. Fits(x)
      BY <1>1, <1>5, <2>3 DEF Worker, Fits, OpFits, TopicFits, LedgerFits, SlotFits, Working, InTurn
  <2>5. SlotStep(r, x)
    <3>1. x.slot = SlotLeft  BY <1>1, <2>1 DEF Worker, Request
    <3>2. CASE SlotLeft
      <4>1. x.slot /\ ~req[r].slot  BY <3>1, <3>2, <1>1
      <4>2. used' = used + 1 /\ used < DailyCap  BY <2>2, <3>2 DEF SlotLeft
      <4> QED  BY <4>1, <4>2 DEF SlotStep
    <3>3. CASE ~SlotLeft
      <4>1. x.slot = FALSE /\ old.slot = FALSE  BY <3>1, <3>3, <1>1 DEF Worker, SlotLeft
      <4>2. used' = used  BY <2>2, <3>3
      <4> QED  BY <4>1, <4>2 DEF SlotStep
    <3> QED  BY <3>2, <3>3
  <2> QED  BY <1>1, <1>2, <2>2, <2>3, <2>4, <2>5, StepKeeps
<1> QED  BY <1>3, <1>4, <1>5

LEMMA SummariseKeeps == ASSUME Inv, NEW r \in Reqs, Summarise(r) PROVE Inv'
<1> DEFINE old == req[r]
<1>1. /\ Worker(old) /\ Fits(old) /\ old.at = "summarise" /\ At(r) \in OnRow
      /\ UNCHANGED <<sess, user>> /\ used' = used
    BY AtWork DEF Summarise, At, OnRow
<1>2. PICK where \in {"call", "write"} : /\ Become(r, [old EXCEPT !.at = where])
                                         /\ where = "call" => old.slot
    BY DEF Summarise, Goto, MayPay
<1>3. PICK x : x = [old EXCEPT !.at = where]  OBVIOUS
<1>4. x \in Request /\ x.at = where /\ Like(x, old)
    BY <1>1, <1>3 DEF Worker, Labels, Request, Like, Same4
<1>5. Fits(x)
  <2>1. OpFits(x) /\ TopicFits(x)
      BY <1>1, <1>4 DEF Worker, Like, Same4, Fits, OpFits, TopicFits, Working, InTurn
  <2>2. LedgerFits(x)
      BY <1>1, <1>4 DEF Like, Same4, Fits, LedgerFits, Working, InTurn
  <2>3. SlotFits(x)
    <3>1. x.made = old.made /\ (old.made = 1 => old.slot) /\ x.slot = old.slot
        BY <1>1, <1>4 DEF Worker, Like, Same4
    <3>2. x.at \in {"call", "write"} /\ (x.at = "call" => old.slot)  BY <1>2, <1>4
    <3> QED  BY <3>1, <3>2 DEF SlotFits, InTurn
  <2> QED  BY <2>1, <2>2, <2>3 DEF Fits
<1>6. SlotStep(r, x)  BY <1>1, <1>4 DEF SlotStep, Like, Same4
<1>7. Become(r, x)  BY <1>2, <1>3 DEF Become
<1>8. x.ends = req[r].ends /\ x.sid = req[r].sid  BY <1>4 DEF Like
<1> QED  BY <1>1, <1>4, <1>5, <1>6, <1>7, <1>8, StepKeeps

LEMMA SummaryCallKeeps == ASSUME Inv, NEW r \in Reqs, SummaryCall(r) PROVE Inv'
<1> DEFINE old == req[r]
<1>1. /\ Worker(old) /\ Fits(old) /\ old.at = "call" /\ At(r) \in OnRow
      /\ UNCHANGED <<sess, user>> /\ used' = used /\ old.slot
    BY AtWork DEF SummaryCall, At, OnRow, Fits, SlotFits
<1>2. PICK x : /\ Become(r, x)
               /\ x = [old EXCEPT !.at = "write"] \/ x = [old EXCEPT !.at = "write", !.made = 1]
    BY DEF SummaryCall, Goto
<1>3. /\ x \in Request /\ x.at = "write" /\ x.op = old.op /\ x.topic = old.topic
      /\ x.told = old.told /\ x.booked = old.booked /\ x.slot = old.slot
      /\ x.ends = old.ends /\ x.sid = old.sid
  <2>1. CASE x = [old EXCEPT !.at = "write"]
      BY <1>1, <2>1 DEF Worker, Request, Labels
  <2>2. CASE x = [old EXCEPT !.at = "write", !.made = 1]
    <3>1. 1 \in 0 .. 1  OBVIOUS
    <3> QED  BY <1>1, <2>2, <3>1 DEF Worker, Request, Labels
  <2> QED  BY <1>2, <2>1, <2>2
<1>4. Fits(x)
    BY <1>1, <1>3 DEF Worker, Fits, OpFits, TopicFits, LedgerFits, SlotFits, Working, InTurn
<1>5. SlotStep(r, x)  BY <1>1, <1>3 DEF SlotStep
<1>6. Become(r, x)  BY <1>2 DEF Become
<1>7. x.ends = req[r].ends /\ x.sid = req[r].sid  BY <1>3
<1> QED  BY <1>1, <1>3, <1>4, <1>5, <1>6, <1>7, StepKeeps

LEMMA WriteSummaryKeeps == ASSUME Inv, NEW r \in Reqs, WriteSummary(r) PROVE Inv'
<1> DEFINE old == req[r]
<1>0. PICK s : s = old.sid  OBVIOUS
<1>1. /\ Worker(old) /\ old \in Request /\ Fits(old) /\ old.at = "write" /\ SameEnd(r, old)
      /\ s \in Sids /\ Exists(s) /\ old.op \in {"create", "end"}
    BY <1>0, AtWork DEF WriteSummary, At, OnRow, Worker, Fits, OpFits
<1>2. sess[s] \in Row /\ <<s, old.ends>> \in Summaries
    BY <1>1, Before DEF Summaries, Request
<1>3. PICK row \in Row : /\ sess' = [sess EXCEPT ![s] = row]
                         /\ row.life = sess[s].life /\ row.active = sess[s].active
  <2>1. [sess[s] EXCEPT !.summary = <<s, old.ends>>] \in Row  BY <1>2 DEF Row
  <2>2. sess' = [sess EXCEPT ![s] = [sess[s] EXCEPT !.summary = <<s, old.ends>>]]
      BY <1>0, <1>2 DEF WriteSummary, Inv, TypeOK, Row
  <2> QED  BY <1>2, <2>1, <2>2 DEF Row
<1>4. Typed /\ Grows /\ Exists(s)'
  <2>1. row.life >= sess[s].life  BY <1>2, <1>3, NotLess DEF Row
  <2>2. user' \in {"absent", "given", "not given"}  BY DEF WriteSummary, Inv, TypeOK
  <2>3. ~sess[s].active => ~row.active  BY <1>3
  <2> QED  BY <1>1, <1>3, <2>1, <2>2, <2>3, OneRow
<1>5. PICK paid : paid = [old EXCEPT !.booked = old.made]  OBVIOUS
<1>6. /\ paid \in Request /\ paid.booked = paid.made /\ paid.made = old.made
      /\ paid.op = old.op /\ paid.slot = old.slot /\ paid.topic = old.topic
      /\ paid.told = old.told /\ paid.ends = old.ends /\ paid.sid = old.sid
    BY <1>1, <1>5 DEF Worker, Request
<1>7. SameEnd(r, paid)  BY <1>6 DEF SameEnd
<1>8. CASE old.op = "end"
  <2>1. Become(r, Told(paid, None, "other")) /\ used' = used
      BY <1>5, <1>8 DEF WriteSummary
  <2> QED  BY <1>1, <1>4, <1>6, <1>7, <1>8, <2>1, ToldKeeps DEF Worker, Replies
<1>9. CASE old.op = "create"
  <2>1. PICK x : x = [paid EXCEPT !.at = "seed"]  OBVIOUS
  <2>2. Become(r, x) /\ used' = used  BY <1>5, <1>9, <2>1 DEF WriteSummary
  <2>3. x \in Request /\ x.at = "seed" /\ Like(x, paid)
      BY <1>6, <2>1, GotoIs DEF Labels
  <2>4. Fits(x)
      BY <1>1, <1>6, <1>9, <2>3 DEF Worker, Like, Same4, Fits, OpFits, TopicFits, LedgerFits,
                                    SlotFits, Working, InTurn
  <2>5. Rooted(x)'  BY <1>0, <1>1, <1>4, <1>6, <2>3 DEF Rooted, Like, Exists
  <2>6. SlotStep(r, x) /\ SameEnd(r, x)
      BY <1>6, <1>7, <2>2, <2>3 DEF SlotStep, SameEnd, Like, Same4
  <2> QED  BY <1>4, <2>2, <2>3, <2>4, <2>5, <2>6, Kept
<1> QED  BY <1>1, <1>8, <1>9

LEMMA ReopenKeeps == ASSUME Inv, NEW r \in Reqs, Reopen(r) PROVE Inv'
<1>1. PICK s \in Sids :
        LET new == [Fresh EXCEPT !.op = "reopen", !.sid = s]
        IN  Become(r, IF ~Exists(s) \/ Active(s) THEN Told(new, None, "other")
                      ELSE IF ActiveOn(sess[s].topic, s) # {}
                           THEN Told(new, sess[s].topic, "duplicate")
                           ELSE [new EXCEPT !.at = "reopen"])
    BY DEF Reopen
<1>2. PICK new : new = [Fresh EXCEPT !.op = "reopen", !.sid = s]  OBVIOUS
<1>3. Opened(new, "reopen") /\ new.topic = None /\ new.sid = s /\ "reopen" \in Ops
    BY <1>2, FreshRequest DEF Opened, Fresh, Request, Ops
<1>4. At(r) = "idle" /\ UNCHANGED <<sess, used, user>>  BY DEF Reopen
<1>5. CASE ~Exists(s) \/ Active(s)
    BY <1>1, <1>2, <1>3, <1>4, <1>5, OpenTold DEF Replies
<1>6. CASE Exists(s) /\ ~Active(s) /\ ActiveOn(sess[s].topic, s) # {}
  <2>1. sess[s].topic \in Topics  BY <1>6, Before DEF Row
  <2> QED  BY <1>1, <1>2, <1>3, <1>4, <1>6, <2>1, OpenTold DEF Replies
<1>7. CASE Exists(s) /\ ~Active(s) /\ ActiveOn(sess[s].topic, s) = {}
  <2>1. PICK x : x = [new EXCEPT !.at = "reopen"]  OBVIOUS
  <2>2. Become(r, x)  BY <1>1, <1>2, <1>7, <2>1
  <2>3. Opened(x, "reopen") /\ x.at = "reopen" /\ x.topic = None /\ x.sid = s
      BY <1>3, <2>1 DEF Opened, Request, Labels
  <2> QED  BY <1>3, <1>4, <1>7, <2>2, <2>3, OpenKeeps DEF OpenAt
<1> QED  BY <1>5, <1>6, <1>7

LEMMA ReopenCommitKeeps == ASSUME Inv, NEW r \in Reqs, ReopenCommit(r) PROVE Inv'
<1> DEFINE old == req[r]
<1>0. PICK s, t : s = old.sid /\ t = sess[s].topic  OBVIOUS
<1>1. /\ Worker(old) /\ old \in Request /\ old.at = "reopen" /\ SameEnd(r, old) /\ s \in Sids
      /\ Exists(s) /\ old.op = "reopen" /\ old.made = 0 /\ old.booked = 0
  <2>1. Worker(old) /\ Fits(old) /\ old.at = "reopen" /\ SameEnd(r, old) /\ s \in Sids /\ Exists(s)
      BY <1>0, AtWork DEF ReopenCommit, At, OnRow
  <2> QED  BY <2>1 DEF Fits, OpFits, LedgerFits, Working, InTurn, Worker
<1>2. sess[s] \in Row /\ t \in Topics /\ sess[s].life \in Nat
  <2>1. sess[s] \in Row  BY <1>1, Before
  <2> QED  BY <1>0, <2>1 DEF Row
<1>3. CASE IndexAllows(t, s)
  <2>1. sess' = [sess EXCEPT ![s] = [sess[s] EXCEPT !.active = TRUE, !.life = @ + 1]]
    <3>1. sess' = [sess EXCEPT ![s].active = TRUE, ![s].life = @ + 1]
        BY <1>0, <1>3 DEF ReopenCommit
    <3> QED  BY <3>1, <1>2 DEF Inv, TypeOK, Row
  <2>2. PICK row \in Row : sess' = [sess EXCEPT ![s] = row] /\ row.life = sess[s].life + 1
    <3>1. \A n \in Nat : n + 1 \in Nat  OBVIOUS
    <3>2. [sess[s] EXCEPT !.active = TRUE, !.life = @ + 1] \in Row
          /\ [sess[s] EXCEPT !.active = TRUE, !.life = @ + 1].life = sess[s].life + 1
        BY <1>2, <3>1 DEF Row
    <3> QED  BY <2>1, <3>2
  <2>3. row.life >= sess[s].life /\ row.life # sess[s].life
    <3>1. \A n \in Nat : n + 1 >= n /\ n + 1 # n  OBVIOUS
    <3> QED  BY <1>2, <2>2, <3>1
  <2>4. user' \in {"absent", "given", "not given"}  BY DEF ReopenCommit, Inv, TypeOK
  <2>5. Typed /\ Grows  BY <1>1, <2>2, <2>3, <2>4, OneRow
  <2>6. Become(r, Told(old, t, "taken")) /\ used' = used  BY <1>0, <1>3 DEF ReopenCommit
  <2> QED  BY <1>1, <1>2, <2>5, <2>6, ToldKeeps DEF Replies
<1>4. CASE ~IndexAllows(t, s)
  <2>1. Become(r, Told(old, t, "duplicate")) /\ UNCHANGED <<sess, used, user>>
      BY <1>0, <1>4 DEF ReopenCommit
  <2> QED  BY <1>1, <1>2, <2>1, ToldKeeps, Stays DEF Replies
<1> QED  BY <1>3, <1>4

LEMMA UpdateKeeps == ASSUME Inv, NEW r \in Reqs, Update(r) PROVE Inv'
<1>0. PICK s \in Sids, t \in Topics \cup {None}, pin \in Pins :
        LET changed == Exists(s) /\ t # sess[s].topic /\ t # None
            moved   == Exists(s) /\ sess[s].pinned # (pin = "pin")
            new == [Fresh EXCEPT !.op = "update", !.sid = s,
                                 !.topic = IF changed THEN t ELSE None,
                                 !.pin = IF moved THEN pin ELSE "keep"]
        IN  /\ t # None \/ pin # "keep"
            /\ Become(r, IF ~Exists(s) \/ (pin = "pin" /\ ~Active(s)) THEN Told(new, None, "other")
                         ELSE IF t # None /\ Active(s) /\ ActiveOn(t, s) # {}
                              THEN Told(new, t, "duplicate")
                              ELSE [new EXCEPT !.at = "update"])
    BY Zenon DEF Update
<1> DEFINE topic  == IF Exists(s) /\ t # sess[s].topic /\ t # None THEN t ELSE None
           pinned == IF Exists(s) /\ sess[s].pinned # (pin = "pin") THEN pin ELSE "keep"
<1>u. PICK u, v : u = topic /\ v = pinned  OBVIOUS
<1>v. u \in Topics \cup {None} /\ v \in Pins  BY <1>u DEF Pins
<1>1. LET new == [Fresh EXCEPT !.op = "update", !.sid = s, !.topic = u, !.pin = v]
      IN  Become(r, IF ~Exists(s) \/ (pin = "pin" /\ ~Active(s)) THEN Told(new, None, "other")
                    ELSE IF t # None /\ Active(s) /\ ActiveOn(t, s) # {}
                         THEN Told(new, t, "duplicate")
                         ELSE [new EXCEPT !.at = "update"])
    BY <1>0, <1>u
<1> HIDE DEF topic, pinned
<1>2. PICK new : new = [Fresh EXCEPT !.op = "update", !.sid = s, !.topic = u, !.pin = v]
    OBVIOUS
<1>3. Opened(new, "update") /\ new.sid = s /\ "update" \in Ops
    BY <1>2, <1>v, FreshRequest DEF Opened, Fresh, Request, Ops
<1>4. At(r) = "idle" /\ UNCHANGED <<sess, used, user>>  BY DEF Update
<1>5. CASE ~Exists(s) \/ (pin = "pin" /\ ~Active(s))
    BY <1>1, <1>2, <1>3, <1>4, <1>5, OpenTold DEF Replies
<1>6. CASE /\ ~(~Exists(s) \/ (pin = "pin" /\ ~Active(s)))
           /\ t # None /\ Active(s) /\ ActiveOn(t, s) # {}
    BY <1>1, <1>2, <1>3, <1>4, <1>6, OpenTold DEF Replies
<1>7. CASE /\ ~(~Exists(s) \/ (pin = "pin" /\ ~Active(s)))
           /\ ~(t # None /\ Active(s) /\ ActiveOn(t, s) # {})
  <2>1. PICK x : x = [new EXCEPT !.at = "update"]  OBVIOUS
  <2>2. Become(r, x)  BY <1>1, <1>2, <1>7, <2>1
  <2>3. Opened(x, "update") /\ x.at = "update" /\ x.sid = s
      BY <1>3, <2>1 DEF Opened, Request, Labels
  <2> QED  BY <1>3, <1>4, <1>7, <2>2, <2>3, OpenKeeps DEF OpenAt
<1> QED  BY <1>5, <1>6, <1>7

LEMMA UpdateCommitKeeps == ASSUME Inv, NEW r \in Reqs, UpdateCommit(r) PROVE Inv'
<1> DEFINE old == req[r]
<1>0. PICK s, t : s = old.sid /\ t = old.topic  OBVIOUS
<1>1. /\ Worker(old) /\ old \in Request /\ old.at = "update" /\ SameEnd(r, old) /\ s \in Sids
      /\ Exists(s) /\ old.op = "update" /\ old.made = 0 /\ old.booked = 0
      /\ t \in Topics \cup {None} /\ old.pin \in Pins
  <2>1. Worker(old) /\ Fits(old) /\ old.at = "update" /\ SameEnd(r, old) /\ s \in Sids /\ Exists(s)
      BY <1>0, AtWork DEF UpdateCommit, At, OnRow
  <2> QED  BY <1>0, <2>1 DEF Fits, OpFits, LedgerFits, Working, InTurn, Worker, Request
<1>2. sess[s] \in Row  BY <1>1, Before
<1>3. CASE t # None /\ Active(s) /\ ~IndexAllows(t, s)
  <2>1. Become(r, Told(old, t, "duplicate")) /\ UNCHANGED <<sess, used, user>>
      BY <1>0, <1>3 DEF UpdateCommit
  <2> QED  BY <1>1, <2>1, ToldKeeps, Stays DEF Replies
<1>4. CASE ~(t # None /\ Active(s) /\ ~IndexAllows(t, s))
  <2>1. PICK row : row = [sess[s] EXCEPT !.pinned = IF old.pin = "keep" THEN @ ELSE old.pin = "pin",
                                         !.topic = IF t = None THEN @ ELSE t]
      OBVIOUS
  <2>2. row \in Row /\ row.life = sess[s].life /\ row.active = sess[s].active
    <3>1. (IF old.pin = "keep" THEN sess[s].pinned ELSE old.pin = "pin") \in BOOLEAN
        BY <1>1, <1>2 DEF Row
    <3>2. (IF t = None THEN sess[s].topic ELSE t) \in Topics  BY <1>1, <1>2 DEF Row
    <3> QED  BY <1>2, <2>1, <3>1, <3>2 DEF Row
  <2>3. /\ sess' = [sess EXCEPT ![s] = row]
        /\ Become(r, Told(old, t, IF t # None /\ Active(s) THEN "taken" ELSE "other"))
        /\ UNCHANGED <<used, user>>
      BY <1>0, <1>4, <2>1 DEF UpdateCommit
  <2>4. Typed /\ Grows
    <3>1. row.life >= sess[s].life  BY <1>2, <2>2, NotLess DEF Row
    <3>2. user' \in {"absent", "given", "not given"}  BY <2>3 DEF Inv, TypeOK
    <3>3. ~sess[s].active => ~row.active  BY <2>2
    <3> QED  BY <1>1, <2>2, <2>3, <3>1, <3>2, <3>3, OneRow
  <2>5. (IF t # None /\ Active(s) THEN "taken" ELSE "other") \in Replies  BY DEF Replies
  <2> QED  BY <1>1, <2>3, <2>4, <2>5, ToldKeeps
<1> QED  BY <1>3, <1>4

LEMMA ChatKeeps == ASSUME Inv, NEW r \in Reqs, Chat(r) PROVE Inv'
<1>1. PICK s \in Sids, ceiling \in BOOLEAN :
        LET new == [Fresh EXCEPT !.op = "chat", !.sid = s]
        IN  Become(r, IF Affordable /\ ~ceiling /\ Active(s) THEN [new EXCEPT !.at = "slot"]
                      ELSE Told(new, None, "other"))
    BY DEF Chat
<1>2. PICK new : new = [Fresh EXCEPT !.op = "chat", !.sid = s]  OBVIOUS
<1>3. Opened(new, "chat") /\ new.topic = None /\ new.sid = s /\ "chat" \in Ops
    BY <1>2, FreshRequest DEF Opened, Fresh, Request, Ops
<1>4. At(r) = "idle" /\ UNCHANGED <<sess, used, user>>  BY DEF Chat
<1>5. CASE Affordable /\ ~ceiling /\ Active(s)
  <2>1. PICK x : x = [new EXCEPT !.at = "slot"]  OBVIOUS
  <2>2. Become(r, x)  BY <1>1, <1>2, <1>5, <2>1
  <2>3. Opened(x, "chat") /\ x.at = "slot" /\ x.topic = None /\ x.sid = s
      BY <1>3, <2>1 DEF Opened, Request, Labels
  <2> QED  BY <1>3, <1>4, <1>5, <2>2, <2>3, OpenKeeps DEF OpenAt, Active
<1>6. CASE ~(Affordable /\ ~ceiling /\ Active(s))
    BY <1>1, <1>2, <1>3, <1>4, <1>6, OpenTold DEF Replies
<1> QED  BY <1>5, <1>6

(* A turn on its way: what its places have in common.                       *)
Turning(r, x) ==
    /\ x \in Request /\ x.op = "chat" /\ x.slot = TRUE /\ x.ends = 0 /\ x.told = "nothing"
    /\ x.topic = None /\ x.booked = 0 /\ x.sid = req[r].sid
LEMMA TurnStep ==
    ASSUME Inv, NEW r \in Reqs, At(r) \in InTurn, UNCHANGED <<sess, used, user>>,
           NEW x, Become(r, x), Turning(r, x), x.at \in InTurn,
           x.at \in {"prepare", "embed"} => x.made = 0 /\ x.pend = 0,
           x.at = "persist" => x.pend = x.made
    PROVE  Inv'
<1>1. Worker(req[r]) /\ Fits(req[r]) /\ At(r) \in OnRow
    BY AtWork DEF InTurn, OnRow
<1>2. req[r].op = "chat" /\ req[r].slot = TRUE /\ req[r].ends = 0
    BY <1>1 DEF Fits, OpFits, SlotFits, At, Worker
<1>3. Fits(x)
    BY DEF Turning, Fits, OpFits, TopicFits, LedgerFits, SlotFits, Working, InTurn
<1>4. SlotStep(r, x)  BY <1>2 DEF SlotStep, Turning
<1>5. x.ends = req[r].ends /\ x.sid = req[r].sid /\ x \in Request  BY <1>2 DEF Turning
<1> QED  BY <1>1, <1>3, <1>4, <1>5, StepKeeps

LEMMA InTurnIs ==
    ASSUME Inv, NEW r \in Reqs, At(r) \in InTurn
    PROVE  /\ Turning(r, req[r]) /\ Worker(req[r]) /\ SameEnd(r, req[r])
           /\ req[r].sid \in Sids /\ Exists(req[r].sid)
           /\ At(r) \in {"prepare", "embed"} => req[r].made = 0 /\ req[r].pend = 0
           /\ At(r) = "persist" => req[r].pend = req[r].made
<1>1. /\ Worker(req[r]) /\ Fits(req[r]) /\ SameEnd(r, req[r]) /\ req[r] \in Request
      /\ req[r].sid \in Sids /\ Exists(req[r].sid)
    BY AtWork DEF InTurn, OnRow, Worker
<1>2. req[r].op = "chat"  BY <1>1 DEF Fits, OpFits, At
<1>3. req[r].booked = 0  BY <1>1 DEF Fits, LedgerFits, At, InTurn, Working
<1>4. req[r].slot = TRUE  BY <1>1 DEF Fits, SlotFits, At, Worker
<1>5. Turning(r, req[r])  BY <1>1, <1>2, <1>3, <1>4 DEF Turning, Worker
<1> QED  BY <1>1, <1>5 DEF Fits, OpFits, LedgerFits, At

LEMMA PrepareKeeps == ASSUME Inv, NEW r \in Reqs, Prepare(r) PROVE Inv'
<1> DEFINE old == req[r]
<1>1. PICK where \in {"embed", "persist"} : Become(r, [old EXCEPT !.at = where])
    BY DEF Prepare, Goto
<1>2. PICK x : x = [old EXCEPT !.at = where]  OBVIOUS
<1>3. /\ Turning(r, old) /\ old.made = 0 /\ old.pend = 0 /\ At(r) \in InTurn
      /\ UNCHANGED <<sess, used, user>>
    BY InTurnIs DEF Prepare, InTurn
<1>4. old \in Request /\ where \in Labels  BY <1>3 DEF Turning, Labels
<1>5. x \in Request /\ x.at = where /\ Like(x, old)  BY <1>2, <1>4, GotoIs
<1>6. Turning(r, x) /\ x.made = 0 /\ x.pend = 0
    BY <1>3, <1>5 DEF Turning, Like, Same4
<1>7. Become(r, x)  BY <1>1, <1>2
<1> QED  BY <1>3, <1>5, <1>6, <1>7, TurnStep DEF InTurn

LEMMA EmbedKeeps == ASSUME Inv, NEW r \in Reqs, Embed(r) PROVE Inv'
<1> DEFINE old == req[r]
<1>1. /\ Turning(r, old) /\ old.made = 0 /\ old.pend = 0 /\ At(r) \in InTurn
      /\ UNCHANGED <<sess, used, user>>
    BY InTurnIs DEF Embed, InTurn
<1>2. PICK x : /\ Become(r, x)
               /\ \/ x = [old EXCEPT !.at = "persist"]
                  \/ x = [old EXCEPT !.at = "persist", !.made = 1, !.pend = 1]
    BY DEF Embed, Goto
<1>3. Turning(r, x) /\ x.at = "persist" /\ x.pend = x.made
  <2>1. CASE x = [old EXCEPT !.at = "persist"]
      BY <1>1, <2>1, ZenonT(40) DEF Turning, Request, Labels
  <2>2. CASE x = [old EXCEPT !.at = "persist", !.made = 1, !.pend = 1]
    <3>1. 1 \in 0 .. 1  OBVIOUS
    <3> QED  BY <1>1, <2>2, <3>1 DEF Turning, Request, Labels
  <2> QED  BY <1>2, <2>1, <2>2
<1> QED  BY <1>1, <1>2, <1>3, TurnStep DEF InTurn

LEMMA PrepareFailsKeeps == ASSUME Inv, NEW r \in Reqs, PrepareFails(r) PROVE Inv'
<1> DEFINE old == req[r]
<1>1. Turning(r, old) /\ At(r) \in InTurn /\ UNCHANGED <<sess, used, user>>
    BY InTurnIs DEF PrepareFails, InTurn
<1>2. PICK x : x = [old EXCEPT !.at = "salvage", !.pend = 0]  OBVIOUS
<1>3. Turning(r, x) /\ x.at = "salvage"
  <2>1. 0 \in 0 .. 1  OBVIOUS
  <2> QED  BY <1>1, <1>2, <2>1 DEF Turning, Request, Labels
<1>4. Become(r, x)  BY <1>2 DEF PrepareFails
<1> QED  BY <1>1, <1>3, <1>4, TurnStep DEF InTurn

LEMMA QueryFailsKeeps == ASSUME Inv, NEW r \in Reqs, QueryFails(r) PROVE Inv'
<1> DEFINE old == req[r]
<1>1. Turning(r, old) /\ At(r) \in InTurn /\ UNCHANGED <<sess, used, user>>
    BY InTurnIs DEF QueryFails, InTurn
<1>2. PICK x : x = [old EXCEPT !.at = "aborted"]  OBVIOUS
<1>3. Turning(r, x) /\ x.at = "aborted"
    BY <1>1, <1>2 DEF Turning, Request, Labels
<1>4. Become(r, x)  BY <1>2 DEF QueryFails, Goto
<1> QED  BY <1>1, <1>3, <1>4, TurnStep DEF InTurn

(* The turn's last transaction stores the message and books the embedding.  *)
LEMMA StoreKeeps ==
    ASSUME Inv, NEW r \in Reqs, At(r) \in {"persist", "salvage"},
           NEW cost \in 0 .. 1, cost = req[r].made, Store(r, cost)
    PROVE  Inv'
<1> DEFINE old == req[r]
<1>0. PICK s : s = old.sid  OBVIOUS
<1>1. /\ Turning(r, old) /\ Worker(old) /\ SameEnd(r, old) /\ s \in Sids /\ Exists(s)
    BY <1>0, InTurnIs DEF InTurn
<1>2. sess[s] \in Row  BY <1>1, Before
<1>3. PICK row \in Row : /\ sess' = [sess EXCEPT ![s] = row]
                         /\ row.life = sess[s].life /\ row.active = sess[s].active
  <2>1. [sess[s] EXCEPT !.talked = TRUE] \in Row  BY <1>2 DEF Row
  <2>2. sess' = [sess EXCEPT ![s] = [sess[s] EXCEPT !.talked = TRUE]]
      BY <1>0, <1>1, <1>2 DEF Store, Inv, TypeOK, Row
  <2> QED  BY <1>2, <2>1, <2>2 DEF Row
<1>4. Typed /\ Grows
  <2>1. row.life >= sess[s].life  BY <1>2, <1>3, NotLess DEF Row
  <2>2. user' \in {"absent", "given", "not given"}  BY DEF Store, Inv, TypeOK
  <2>3. ~sess[s].active => ~row.active  BY <1>3
  <2> QED  BY <1>1, <1>3, <2>1, <2>2, <2>3, OneRow
<1>5. PICK y : y = Told(old, None, "other")  OBVIOUS
<1>6. /\ y \in Request /\ y.at = "done" /\ y.told = "other" /\ Same4(y, old)
      /\ y.ends = old.ends
    BY <1>1, <1>5, ToldIs DEF Worker, Replies
<1>7. PICK x : x = [y EXCEPT !.booked = cost, !.kept = TRUE]  OBVIOUS
<1>8. /\ x \in Request /\ x.at = "done" /\ x.op = old.op /\ x.slot = old.slot
      /\ x.made = old.made /\ x.booked = cost /\ x.kept = TRUE /\ x.ends = old.ends
    BY <1>6, <1>7 DEF Request, Same4
<1>9. Fits(x)
    BY <1>1, <1>8 DEF Worker, Turning, Fits, OpFits, TopicFits, LedgerFits, SlotFits, Working,
                      InTurn
<1>10. SlotStep(r, x)  BY <1>8 DEF SlotStep, Store
<1>11. SameEnd(r, x) /\ Rooted(x)'  BY <1>1, <1>8 DEF SameEnd, Turning, Rooted, OnRow
<1>12. Become(r, x)  BY <1>5, <1>7 DEF Store
<1> QED  BY <1>4, <1>8, <1>9, <1>10, <1>11, <1>12, Kept

LEMMA PersistKeeps == ASSUME Inv, NEW r \in Reqs, Persist(r) PROVE Inv'
<1>1. At(r) = "persist" /\ req[r].pend = req[r].made /\ req[r].made \in 0 .. 1
    BY InTurnIs DEF Persist, InTurn, Worker
<1> QED  BY <1>1, StoreKeeps DEF Persist

LEMMA SalvageKeeps == ASSUME Inv, NEW r \in Reqs, Salvage(r) PROVE Inv'
<1>1. At(r) = "salvage" /\ req[r].made \in 0 .. 1
    BY InTurnIs DEF Salvage, InTurn, Worker
<1> QED  BY <1>1, StoreKeeps DEF Salvage, Salvaged

LEMMA GetMeKeeps == ASSUME Inv, NEW r \in Reqs, GetMe(r) PROVE Inv'
<1>1. At(r) = "idle" /\ UNCHANGED <<sess, used>> /\ req[r] = Fresh
    BY Blank DEF GetMe
<1>2. Typed /\ Grows
  <2>1. user' \in {"absent", "given", "not given"}  BY DEF GetMe, Inv, TypeOK
  <2>2. \A s \in Sids : Exists(s) => sess[s].life \in Nat
    <3>1. \A s \in Sids : Exists(s) => sess[s] \in Row  BY Before
    <3> QED  BY <3>1 DEF Row
  <2>3. sess' \in [Sids -> Row \cup {None}]  BY <1>1 DEF Inv, TypeOK
  <2>4. \A s \in Sids : Exists(s)' = Exists(s)  BY <1>1 DEF Exists
  <2>5. Grows  BY <1>1, <2>2, <2>4 DEF Grows
  <2> QED  BY <2>1, <2>3, <2>5 DEF Typed
<1>3. PICK old : old = Fresh  OBVIOUS
<1>4. /\ old \in Request /\ old.booked = 0 /\ old.made = 0 /\ old.op = "none"
      /\ old.slot = FALSE /\ old.ends = 0
    BY <1>3, FreshRequest DEF Fresh
<1>5. Become(r, Told(old, None, "other")) /\ old.slot = req[r].slot
    BY <1>1, <1>3 DEF GetMe
<1> QED  BY <1>1, <1>2, <1>4, <1>5, ToldKeeps DEF SameEnd, Replies

(* A request that is cut off, by a crash or by its commit.                  *)
LEMMA CutOffKeeps ==
    ASSUME Inv, NEW r \in Reqs, At(r) \notin {"idle", "done", "dead", "lost"},
           NEW where \in {"dead", "lost"}, Become(r, Over(req[r], where)),
           UNCHANGED <<sess, used, user>>
    PROVE  Inv'
<1> DEFINE old == req[r]
<1>1. /\ Worker(old) /\ UNCHANGED <<sess, used, user>>
    BY AtWork
<1>2. PICK x : x = Over(old, where)  OBVIOUS
<1>3. /\ x \in Request /\ x.at = where /\ x.told = old.told /\ Same4(x, old)
      /\ x.ends = old.ends
      /\ x.ends > 0 => x.sid = old.sid
    BY <1>1, <1>2, OverIs DEF Worker
<1>4. Fits(x)
    BY <1>1, <1>3 DEF Worker, Same4, Fits, OpFits, TopicFits, LedgerFits, SlotFits, Working,
                      InTurn
<1>5. SameEnd(r, x)
  <2>1. x.ends \in Nat  BY <1>3 DEF Request
  <2> QED  BY <2>1, <1>3 DEF SameEnd
<1>6. SlotStep(r, x) /\ Rooted(x)'
    BY <1>1, <1>3 DEF SlotStep, Same4, Rooted, OnRow
<1>7. Become(r, x)  BY <1>2
<1> QED  BY <1>1, <1>3, <1>4, <1>5, <1>6, <1>7, Kept, Stays

LEMMA AbortedCommitKeeps == ASSUME Inv, NEW r \in Reqs, AbortedCommit(r) PROVE Inv'
BY CutOffKeeps DEF AbortedCommit

LEMMA CrashKeeps == ASSUME Inv, NEW r \in Reqs, Crash(r) PROVE Inv'
BY CutOffKeeps DEF Crash

-----------------------------------------------------------------------------
LEMMA InitInv == Init => Inv
<1> SUFFICES ASSUME Init PROVE Inv
    OBVIOUS
<1>1. req = [r \in Reqs |-> Fresh] /\ used = 0  BY DEF Init
<1>2. \A s \in Sids : Past(s) \subseteq Row \cup {None}
  <2> SUFFICES ASSUME NEW s \in Sids, NEW row \in Past(s), row # None PROVE row \in Row
      OBVIOUS
  <2>1. PICK t \in Topics, a \in BOOLEAN :
          row = [topic |-> t, active |-> a, pinned |-> FALSE, talked |-> TRUE, life |-> 1,
                 summary |-> IF a THEN None ELSE <<s, 1>>]
      BY DEF Past
  <2>2. (IF a THEN None ELSE <<s, 1>>) \in Summaries  BY DEF Summaries
  <2> QED  BY <2>1, <2>2 DEF Row
<1>3. sess \in [Sids -> Row \cup {None}]
  <2>1. PICK f \in [Sids -> UNION {Past(s) : s \in Sids}] :
          sess = f /\ \A s \in Sids : f[s] \in Past(s)
      BY DEF Init
  <2> QED  BY <1>2, <2>1
<1>4. TypeOK
  <2>1. req \in [Reqs -> Request]  BY <1>1, FreshRequest
  <2>2. used \in 0 .. DailyCap  BY <1>1, LifecycleOK
  <2>3. user \in {"absent", "given", "not given"}  BY DEF Init
  <2> QED  BY <1>3, <2>1, <2>2, <2>3 DEF TypeOK
<1>5. \A r \in Reqs : Fits(req[r]) /\ Rooted(req[r]) /\ Ended(req[r]) /\ req[r].ends = 0
                       /\ ~req[r].slot
  <2>1. Fits(Fresh)
      BY DEF Fresh, Fits, OpFits, TopicFits, LedgerFits, SlotFits, Working, InTurn
  <2>2. Rooted(Fresh) /\ Ended(Fresh)  BY DEF Fresh, Rooted, Ended, OnRow
  <2>3. Fresh.ends = 0 /\ ~Fresh.slot  BY DEF Fresh
  <2>4. \A r \in Reqs : req[r] = Fresh  BY <1>1
  <2> QED  BY <2>1, <2>2, <2>3, <2>4
<1>6. OneEnd  BY <1>5 DEF OneEnd
<1>7. SlotsCounted
  <2>1. Slotted = {}  BY <1>5 DEF Slotted
  <2> QED  BY <1>1, <2>1, FS_EmptySet DEF SlotsCounted
<1> QED  BY <1>4, <1>5, <1>6, <1>7 DEF Inv

LEMMA StutterKeeps == Inv /\ UNCHANGED vars => Inv'
<1> SUFFICES ASSUME Inv, UNCHANGED vars PROVE Inv'
    OBVIOUS
<1>1. sess' = sess /\ req' = req /\ used' = used /\ user' = user  BY DEF vars
<1>2. TypeOK' /\ OneEnd' /\ SlotsCounted'
    BY <1>1 DEF Inv, TypeOK, OneEnd, SlotsCounted, Slotted
<1>3. \A r \in Reqs : (Fits(req[r]) /\ Rooted(req[r]) /\ Ended(req[r]))'
    BY <1>1 DEF Inv, Fits, OpFits, TopicFits, LedgerFits, SlotFits, Working, Rooted, Ended, Exists
<1> QED  BY <1>2, <1>3 DEF Inv

LEMMA InvInductive == Inv /\ [Next]_vars => Inv'
<1> SUFFICES ASSUME Inv, [Next]_vars PROVE Inv'
    OBVIOUS
<1>1. CASE UNCHANGED vars  BY <1>1, StutterKeeps
<1>2. ASSUME NEW r \in Reqs, Arrive(r) PROVE Inv'
    BY <1>2, CreateKeeps, EndKeeps, ReopenKeeps, UpdateKeeps, ChatKeeps, GetMeKeeps DEF Arrive
<1>3. ASSUME NEW r \in Reqs, Step(r) PROVE Inv'
    BY <1>3, ClaimPriorKeeps, TakeSlotKeeps, SummariseKeeps, SummaryCallKeeps,
       WriteSummaryKeeps, SeedKeeps, InsertKeeps, ReopenCommitKeeps, UpdateCommitKeeps,
       PrepareKeeps, EmbedKeeps, PersistKeeps, PrepareFailsKeeps, SalvageKeeps,
       QueryFailsKeeps, AbortedCommitKeeps
    DEF Step
<1>4. ASSUME NEW r \in Reqs, Crash(r) PROVE Inv'
    BY <1>4, CrashKeeps
<1> QED  BY <1>1, <1>2, <1>3, <1>4 DEF Next

LEMMA InvAlways == Spec => []Inv
BY InitInv, InvInductive, PTL DEF Spec

(* The rows, the requests, the counter and the user keep their types.       *)
THEOREM TypeCorrect == Spec => []TypeOK
<1>1. Inv => TypeOK  BY DEF Inv
<1> QED  BY <1>1, InvAlways, PTL

(* However many ends and resumes of a session meet, over however many lives *)
(* and crashes, at most one of them makes the paid summary call of a life.  *)
THEOREM OnePaysTheSummary == Spec => []SummaryPaidOnce
<1>1. Inv => SummaryPaidOnce  BY DEF Inv, OneEnd, SummaryPaidOnce
<1> QED  BY <1>1, InvAlways, PTL

(* Every model call of an end, a resume or a turn's preparation is made on  *)
(* a slot of its own, and the counter is exactly the slots given out.       *)
THEOREM SpendNeedsSlot == Spec => []SlotBeforeSpend
<1>1. Inv => SlotBeforeSpend
  <2> SUFFICES ASSUME Inv PROVE SlotBeforeSpend
      OBVIOUS
  <2>1. \A r \in Reqs : req[r].made = 1 => req[r].slot
      BY DEF Inv, Fits, SlotFits
  <2>2. Cardinality({r \in Reqs : req[r].slot}) = used
      BY DEF Inv, SlotsCounted, Slotted
  <2>3. used <= DailyCap
    <3>1. used \in 0 .. DailyCap /\ DailyCap \in Nat  BY LifecycleOK DEF Inv, TypeOK
    <3> QED  BY <3>1
  <2> QED  BY <2>1, <2>2, <2>3 DEF SlotBeforeSpend
<1> QED  BY <1>1, InvAlways, PTL

(* An accepted turn that is not cut off leaves its message behind and no    *)
(* call that was made goes unbooked, whatever the preparation raises.       *)
THEOREM NothingLostOnTheWay == Spec => []TurnKept
<1>1. Inv => TurnKept  BY DEF Inv, Fits, LedgerFits, SlotFits, TurnKept, At
<1> QED  BY <1>1, InvAlways, PTL

-----------------------------------------------------------------------------
(* A request that has the sessions to itself finds at its insert what it    *)
(* found at its pre-check: no rival on its topic, and the prior it ended    *)
(* still ended.                                                             *)
Solo(r) == \A q \in Reqs \ {r} : At(q) = "idle"
Resuming(x) == x.op = "create" /\ Working(x)
Clear(x) == /\ Resuming(x) => ActiveOn(x.topic, x.sid) = {} /\ (x.ends > 0 => ~Active(x.sid))
            /\ x.ends > 0 => x.told # "duplicate"
Ender(x) == x.ends > 0 => x.op \in {"create", "end"}
Unrivalled == \A r \in Reqs : Ender(req[r]) /\ (Solo(r) => Clear(req[r]))

(* What a step leaves of the request that takes it.                         *)
Outcome(r, x) == /\ Become(r, x) /\ x.at # "idle"
                 /\ Ender(x) /\ (Solo(r) => Clear(x)')

LEMMA OutcomeKeeps ==
    ASSUME Inv, Unrivalled, NEW r \in Reqs, NEW x, Outcome(r, x)
    PROVE  Unrivalled'
<1>1. req'[r] = x /\ \A q \in Reqs \ {r} : req'[q] = req[q]
    BY DEF Outcome, Become, Inv, TypeOK
<1>2. At(r)' # "idle"  BY <1>1 DEF Outcome, At
<1>3. ASSUME NEW q \in Reqs \ {r} PROVE Ender(req[q])' /\ ~Solo(q)'
    BY <1>1, <1>2 DEF Unrivalled, Ender, Solo
<1>4. Ender(req[r])'  BY <1>1 DEF Outcome, Ender
<1>5. ASSUME Solo(r)' PROVE Clear(req[r])'
  <2>1. Solo(r)  BY <1>1, <1>5 DEF Solo, At
  <2>2. Clear(x)'  BY <2>1 DEF Outcome
  <2> QED  BY <1>1, <2>2 DEF Clear, Resuming, Working
<1> QED  BY <1>3, <1>4, <1>5 DEF Unrivalled

(* It is over, or it is no resume.                                          *)
LEMMA NoResume ==
    ASSUME NEW r \in Reqs, NEW x, Become(r, x), x.at # "idle", Ender(x), ~Resuming(x),
           x.ends > 0 => x.told # "duplicate"
    PROVE  Outcome(r, x)
BY DEF Outcome, Clear, Resuming, Working

LEMMA ToldSo ==
    ASSUME NEW r \in Reqs, NEW old \in Request, NEW t \in Topics \cup {None}, NEW reply \in Replies,
           Become(r, Told(old, t, reply)), Ender(old), old.ends > 0 => reply # "duplicate"
    PROVE  \E x : Outcome(r, x)
<1>1. PICK x : x = Told(old, t, reply)  OBVIOUS
<1>2. x.at = "done" /\ x.op = old.op /\ x.ends = old.ends /\ x.told = reply
    BY <1>1, ToldIs DEF Same4
<1>3. Become(r, x)  BY <1>1
<1>4. Ender(x) /\ ~Resuming(x)  BY <1>2 DEF Ender, Resuming, Working
<1>5. Outcome(r, x)  BY <1>2, <1>3, <1>4, NoResume
<1> QED  BY <1>5

(* A resume goes on, and no session but its own prior changed meanwhile.    *)
LEMMA GoesOn ==
    ASSUME Inv, Unrivalled, NEW r \in Reqs, NEW x, Become(r, x), Resuming(req[r]),
           x.at # "idle", x.told = "nothing", x.op = "create",
           x.topic = req[r].topic, x.sid = req[r].sid, x.ends = req[r].ends,
           \A s \in Sids : Active(s)' => Active(s) /\ sess'[s].topic = sess[s].topic
    PROVE  Outcome(r, x)
<1>1. Ender(x)  BY DEF Ender
<1>2. ASSUME Solo(r) PROVE Clear(x)'
  <2>1. ActiveOn(x.topic, x.sid) = {} /\ (x.ends > 0 => ~Active(x.sid))
      BY <1>2 DEF Unrivalled, Clear
  <2>2. ActiveOn(x.topic, x.sid)' = {}  BY <2>1 DEF ActiveOn
  <2>3. x.ends > 0 => x.sid \in Sids
    <3>1. Ended(req[r])  BY Before
    <3> QED  BY <3>1 DEF Ended
  <2>4. x.ends > 0 => ~Active(x.sid)'  BY <2>1, <2>3
  <2> QED  BY <2>2, <2>4 DEF Clear
<1> QED  BY <1>1, <1>2 DEF Outcome

LEMMA SameRows ==
    ASSUME UNCHANGED sess
    PROVE  \A s \in Sids : Active(s)' => Active(s) /\ sess'[s].topic = sess[s].topic
BY DEF Active, Exists

LEMMA CreateRivals ==
    ASSUME Inv, Unrivalled, NEW r \in Reqs, Create(r) PROVE \E x : Outcome(r, x)
<1>1. UNCHANGED <<sess, used, user>>  BY DEF Create
<1>2. PICK t \in Topics, p \in Sids \cup {None}, claim \in {"given", "not given"} :
        LET new == [Fresh EXCEPT !.op = "create", !.sid = p, !.topic = t,
                                 !.consent = NewUser(r, claim)]
        IN  Become(r, IF Rivals(t, p) # {} THEN Told(new, t, "duplicate")
                      ELSE IF p = None THEN [new EXCEPT !.at = "insert"]
                      ELSE IF ~Exists(p) THEN Told(new, None, "other")
                      ELSE [new EXCEPT !.at = IF Active(p) THEN "claim" ELSE "seed"])
    BY DEF Create
<1>3. PICK new : new = [Fresh EXCEPT !.op = "create", !.sid = p, !.topic = t,
                                     !.consent = NewUser(r, claim)]
    OBVIOUS
<1>4. /\ new \in Request /\ new.op = "create" /\ new.ends = 0 /\ new.topic = t /\ new.sid = p
      /\ new.told = "nothing"
  <2>1. NewUser(r, claim) \in {"absent", "given", "not given"}  BY DEF NewUser
  <2> QED  BY <1>3, <2>1, FreshRequest DEF Fresh, Request, Ops
<1>5. Ender(new) /\ ~(new.ends > 0)
  <2>1. new.ends \in Nat  BY <1>4 DEF Request
  <2>2. ~(new.ends > 0)  BY <1>4, <2>1, NotMore
  <2> QED  BY <2>2 DEF Ender
<1>6. CASE Rivals(t, p) # {} \/ (p # None /\ ~Exists(p))
  <2>1. PICK u \in Topics \cup {None}, reply \in Replies : Become(r, Told(new, u, reply))
      BY <1>2, <1>3, <1>6 DEF Replies
  <2> HIDE DEF Ender
  <2> QED  BY <1>4, <1>5, <2>1, ToldSo
<1>7. CASE Rivals(t, p) = {} /\ (p = None \/ Exists(p))
  <2>1. PICK at \in {"insert", "claim", "seed"} : Become(r, [new EXCEPT !.at = at])
      BY <1>2, <1>3, <1>7
  <2>2. PICK x : x = [new EXCEPT !.at = at]  OBVIOUS
  <2>3. /\ x.at = at /\ x.op = "create" /\ x.ends = 0 /\ x.topic = t /\ x.sid = p
        /\ x.told = "nothing"
      BY <1>4, <2>2 DEF Request
  <2>4. ActiveOn(t, p)' = {}  BY <1>1, <1>7 DEF Rivals, ActiveOn, Active, Exists
  <2>5. Clear(x)' /\ Ender(x)
    <3>1. ~(x.ends > 0)  BY <1>4, <1>5, <2>3
    <3> QED  BY <2>3, <2>4, <3>1 DEF Clear, Ender
  <2>6. Outcome(r, x)  BY <2>1, <2>2, <2>3, <2>5 DEF Outcome
  <2> QED  BY <2>6
<1> QED  BY <1>6, <1>7

LEMMA ClaimPriorRivals ==
    ASSUME Inv, Unrivalled, NEW r \in Reqs, ClaimPrior(r) PROVE \E x : Outcome(r, x)
<1>1. PICK old \in Request : /\ old = req[r] /\ old.at = "claim" /\ old.op = "create"
                             /\ old.told = "nothing" /\ old.sid \in Sids
    BY AtWork DEF ClaimPrior, At, Fits, OpFits, Worker, OnRow
<1>2. Resuming(req[r])  BY <1>1 DEF Resuming, Working
<1>3. CASE Claimable(old.sid)
  <2>1. PICK x : x = [old EXCEPT !.at = "slot", !.ends = sess[old.sid].life]  OBVIOUS
  <2>2. sess' = [sess EXCEPT ![old.sid].active = FALSE] /\ Become(r, x) /\ Active(old.sid)
      BY <1>1, <1>3, <2>1 DEF ClaimPrior, ClaimEnd, Claimable
  <2>3. /\ x.at = "slot" /\ x.op = "create" /\ x.sid = old.sid /\ x.topic = old.topic
        /\ x.told = "nothing"
      BY <1>1, <2>1 DEF Request
  <2>4. /\ \A s \in Sids : Active(s)' => Active(s) /\ sess'[s].topic = sess[s].topic
        /\ ~Active(old.sid)'
    <3>1. sess[old.sid] \in Row  BY <1>1, <2>2, Before DEF Active
    <3>2. ~sess'[old.sid].active
        BY <1>1, <2>2, <3>1 DEF Inv, TypeOK, Row
    <3>3. \A s \in Sids \ {old.sid} : sess'[s] = sess[s]
        BY <2>2 DEF Inv, TypeOK
    <3>4. ~Active(old.sid)'  BY <3>2 DEF Active
    <3>5. \A s \in Sids \ {old.sid} : Active(s)' = Active(s)  BY <3>3 DEF Active, Exists
    <3> QED  BY <3>3, <3>4, <3>5
  <2>5. ASSUME Solo(r) PROVE Clear(x)'
    <3>1. ActiveOn(x.topic, x.sid) = {}  BY <1>1, <1>2, <2>3, <2>5 DEF Unrivalled, Clear
    <3>2. ActiveOn(x.topic, x.sid)' = {}  BY <2>4, <3>1 DEF ActiveOn
    <3> QED  BY <2>3, <2>4, <3>2 DEF Clear
  <2>6. Outcome(r, x)  BY <2>2, <2>3, <2>5 DEF Outcome, Ender
  <2> QED  BY <2>6
<1>4. CASE ~Claimable(old.sid)
  <2>1. PICK x : x = [old EXCEPT !.at = "seed"]  OBVIOUS
  <2>2. Become(r, x) /\ UNCHANGED sess  BY <1>1, <1>4, <2>1 DEF ClaimPrior, ClaimEnd
  <2>3. /\ x.at = "seed" /\ x.op = "create" /\ x.sid = old.sid /\ x.topic = old.topic
        /\ x.told = "nothing" /\ x.ends = old.ends
      BY <1>1, <2>1 DEF Request
  <2>4. Outcome(r, x)  BY <1>1, <1>2, <2>2, <2>3, GoesOn, SameRows
  <2> QED  BY <2>4
<1> QED  BY <1>3, <1>4

(* The steps of a summary, and the seed of the new row.                     *)
LEMMA SummaryRivals ==
    ASSUME Inv, Unrivalled, NEW r \in Reqs,
           TakeSlot(r) \/ Summarise(r) \/ SummaryCall(r) \/ WriteSummary(r) \/ Seed(r)
    PROVE  \E x : Outcome(r, x)
<1>1. PICK old \in Request : /\ old = req[r] /\ old.told = "nothing"
                             /\ old.at \in {"slot", "summarise", "call", "write", "seed"}
                             /\ old.op \in {"create", "end", "chat"}
                             /\ old.sid \in Sids /\ Exists(old.sid)
    BY AtWork DEF TakeSlot, Summarise, SummaryCall, WriteSummary, Seed, At, Fits, OpFits, Worker,
                  OnRow
<1>2. Ender(old)  BY <1>1 DEF Unrivalled
<1>3. \A s \in Sids : Active(s)' => Active(s) /\ sess'[s].topic = sess[s].topic
  <2>1. CASE WriteSummary(r)
    <3>1. sess[old.sid] \in Row  BY <1>1, Before
    <3>2. sess' = [sess EXCEPT ![old.sid].summary = <<old.sid, old.ends>>]
        BY <1>1, <2>1 DEF WriteSummary
    <3>3. /\ sess'[old.sid].active = sess[old.sid].active
          /\ sess'[old.sid].topic = sess[old.sid].topic
          /\ \A s \in Sids \ {old.sid} : sess'[s] = sess[s]
        BY <1>1, <3>1, <3>2 DEF Inv, TypeOK, Row
    <3> QED  BY <1>1, <3>3 DEF Active, Exists
  <2>2. CASE ~WriteSummary(r)
    <3>1. UNCHANGED sess  BY <2>2 DEF TakeSlot, Summarise, SummaryCall, Seed
    <3> QED  BY <3>1, SameRows
  <2> QED  BY <2>1, <2>2
<1>4. ASSUME NEW x, Become(r, x), x.at # "idle", x.told = "nothing", x.op = old.op,
             x.topic = old.topic, x.sid = old.sid, x.ends = old.ends
      PROVE  Outcome(r, x)
  <2>1. CASE old.op = "create"
    <3>1. Resuming(req[r])  BY <1>1, <2>1 DEF Resuming, Working
    <3> QED  BY <1>1, <1>3, <1>4, <2>1, <3>1, GoesOn
  <2>2. CASE old.op # "create"
    <3>1. ~Resuming(x) /\ Ender(x)  BY <1>2, <1>4, <2>2 DEF Resuming, Ender
    <3> QED  BY <1>4, <3>1, NoResume
  <2> QED  BY <2>1, <2>2
<1>5. CASE TakeSlot(r)
  <2>1. CASE old.op = "chat" /\ ~SlotLeft
    <3>1. Become(r, Told(old, None, "other"))  BY <1>1, <1>5, <2>1 DEF TakeSlot
    <3> QED  BY <1>2, <3>1, ToldSo DEF Replies
  <2>2. CASE ~(old.op = "chat" /\ ~SlotLeft)
    <3>1. PICK at \in {"prepare", "summarise"} : Become(r, [old EXCEPT !.at = at, !.slot = SlotLeft])
        BY <1>1, <1>5, <2>2 DEF TakeSlot
    <3>2. PICK x : x = [old EXCEPT !.at = at, !.slot = SlotLeft]  OBVIOUS
    <3>3. /\ x.at = at /\ x.told = "nothing" /\ x.op = old.op /\ x.topic = old.topic
          /\ x.sid = old.sid /\ x.ends = old.ends
        BY <1>1, <3>2 DEF Request
    <3>4. Outcome(r, x)  BY <1>4, <3>1, <3>2, <3>3
    <3> QED  BY <3>4
  <2> QED  BY <2>1, <2>2
<1>6. CASE Summarise(r)
  <2>1. PICK at \in {"call", "write"} : Become(r, [old EXCEPT !.at = at])
      BY <1>1, <1>6 DEF Summarise, Goto
  <2>2. PICK x : x = [old EXCEPT !.at = at]  OBVIOUS
  <2>3. /\ x.at = at /\ x.told = "nothing" /\ x.op = old.op /\ x.topic = old.topic
        /\ x.sid = old.sid /\ x.ends = old.ends
      BY <1>1, <2>2 DEF Request
  <2>4. Outcome(r, x)  BY <1>4, <2>1, <2>2, <2>3
  <2> QED  BY <2>4
<1>7. CASE SummaryCall(r)
  <2>1. PICK m \in {old.made, 1} : Become(r, [old EXCEPT !.at = "write", !.made = m])
    <3>1. [old EXCEPT !.at = "write"] = [old EXCEPT !.at = "write", !.made = old.made]
        BY DEF Request
    <3> QED  BY <1>1, <1>7, <3>1 DEF SummaryCall, Goto
  <2>2. PICK x : x = [old EXCEPT !.at = "write", !.made = m]  OBVIOUS
  <2>3. /\ x.at = "write" /\ x.told = "nothing" /\ x.op = old.op /\ x.topic = old.topic
        /\ x.sid = old.sid /\ x.ends = old.ends
      BY <1>1, <2>2 DEF Request
  <2>4. Outcome(r, x)  BY <1>4, <2>1, <2>2, <2>3
  <2> QED  BY <2>4
<1>8. CASE WriteSummary(r)
  <2>1. PICK paid : paid = [old EXCEPT !.booked = old.made]  OBVIOUS
  <2>2. /\ paid \in Request /\ paid.told = "nothing" /\ paid.op = old.op /\ paid.topic = old.topic
        /\ paid.sid = old.sid /\ paid.ends = old.ends
      BY <1>1, <2>1 DEF Request
  <2>3. CASE old.op = "end"
    <3>1. Become(r, Told(paid, None, "other"))  BY <1>1, <1>8, <2>1, <2>3 DEF WriteSummary
    <3>2. Ender(paid)  BY <1>2, <2>2 DEF Ender
    <3> QED  BY <2>2, <3>1, <3>2, ToldSo DEF Replies
  <2>4. CASE old.op # "end"
    <3>1. PICK x : x = [paid EXCEPT !.at = "seed"]  OBVIOUS
    <3>2. Become(r, x)  BY <1>1, <1>8, <2>1, <2>4, <3>1 DEF WriteSummary
    <3>3. /\ x.at = "seed" /\ x.told = "nothing" /\ x.op = old.op /\ x.topic = old.topic
          /\ x.sid = old.sid /\ x.ends = old.ends
        BY <2>2, <3>1 DEF Request
    <3>4. Outcome(r, x)  BY <1>4, <3>2, <3>3
    <3> QED  BY <3>4
  <2> QED  BY <2>3, <2>4
<1>9. CASE Seed(r)
  <2>1. PICK x : x = [old EXCEPT !.at = "insert", !.seed = sess[old.sid].summary]  OBVIOUS
  <2>2. Become(r, x)  BY <1>1, <1>9, <2>1 DEF Seed
  <2>3. /\ x.at = "insert" /\ x.told = "nothing" /\ x.op = old.op /\ x.topic = old.topic
        /\ x.sid = old.sid /\ x.ends = old.ends
      BY <1>1, <2>1 DEF Request
  <2>4. Outcome(r, x)  BY <1>4, <2>2, <2>3
  <2> QED  BY <2>4
<1> QED  BY <1>5, <1>6, <1>7, <1>8, <1>9

(* The insert: alone, a resume that ended its prior finds the topic free.   *)
LEMMA InsertRivals ==
    ASSUME Inv, Unrivalled, NEW r \in Reqs, Insert(r) PROVE \E x : Outcome(r, x)
<1>1. PICK old \in Request : /\ old = req[r] /\ old.at = "insert" /\ old.op = "create"
                             /\ old.topic \in Topics
    BY AtWork DEF Insert, At, Fits, OpFits, Worker
<1>2. Ender(old)  BY <1>1 DEF Ender
<1>3. CASE IndexAllows(old.topic, None)
  <2>1. Become(r, Told(old, old.topic, "taken"))  BY <1>1, <1>3 DEF Insert
  <2> QED  BY <1>1, <1>2, <2>1, ToldSo DEF Replies
<1>4. CASE ~IndexAllows(old.topic, None)
  <2>1. PICK x : x = Told(old, old.topic, "duplicate")  OBVIOUS
  <2>2. Become(r, x)  BY <1>1, <1>4, <2>1 DEF Insert
  <2>3. x.at = "done" /\ x.op = "create" /\ x.ends = old.ends
    <3>1. "duplicate" \in Replies  BY DEF Replies
    <3>2. x.at = "done" /\ Same4(x, old) /\ x.ends = old.ends  BY <1>1, <2>1, <3>1, ToldIs
    <3> QED  BY <1>1, <3>2 DEF Same4
  <2>4. ASSUME Solo(r) PROVE ~(old.ends > 0)
    <3> SUFFICES ASSUME old.ends > 0 PROVE FALSE
        OBVIOUS
    <3>1. Resuming(old)  BY <1>1 DEF Resuming, Working
    <3>2. ActiveOn(old.topic, old.sid) = {} /\ ~Active(old.sid)
        BY <1>1, <2>4, <3>1 DEF Unrivalled, Clear
    <3>3. ActiveOn(old.topic, None) = {}  BY <3>2 DEF ActiveOn
    <3> QED  BY <1>4, <3>3 DEF IndexAllows
  <2>5. Ender(x) /\ ~Resuming(x)  BY <2>3 DEF Ender, Resuming, Working
  <2>6. ASSUME Solo(r) PROVE Clear(x)'
    <3>1. ~(x.ends > 0)  BY <2>3, <2>4, <2>6
    <3>2. ~Resuming(x)'  BY <2>5 DEF Resuming, Working
    <3> QED  BY <3>1, <3>2 DEF Clear
  <2>7. Outcome(r, x)  BY <2>2, <2>3, <2>5, <2>6 DEF Outcome
  <2> QED  BY <2>7
<1> QED  BY <1>3, <1>4

(* Whoever neither creates nor ends has no end to waste.                    *)
LEMMA Harmless ==
    ASSUME NEW r \in Reqs, NEW x \in Request, Become(r, x), x.at # "idle",
           x.op # "create", ~(x.ends > 0)
    PROVE  \E y : Outcome(r, y)
<1>1. Ender(x) /\ ~Resuming(x)  BY DEF Ender, Resuming
<1>2. Outcome(r, x)  BY <1>1, NoResume
<1> QED  BY <1>2

LEMMA HarmlessTold ==
    ASSUME NEW r \in Reqs, NEW old \in Request, NEW t \in Topics \cup {None},
           NEW reply \in Replies, Become(r, Told(old, t, reply)), ~(old.ends > 0)
    PROVE  \E y : Outcome(r, y)
<1>1. Ender(old)  BY DEF Ender
<1> QED  BY <1>1, ToldSo

LEMMA FreshNever == ~(Fresh.ends > 0)
<1>1. Fresh.ends = 0  BY DEF Fresh
<1> QED  BY <1>1, NotMore

LEMMA FreshEnds ==
    ASSUME NEW op \in Ops, NEW s \in Sids
    PROVE  LET x == [Fresh EXCEPT !.op = op, !.sid = s]
           IN  x \in Request /\ x.op = op /\ ~(x.ends > 0)
<1>1. PICK x : x = [Fresh EXCEPT !.op = op, !.sid = s]  OBVIOUS
<1>2. x \in Request /\ x.op = op /\ x.ends = Fresh.ends
    BY <1>1, FreshRequest DEF Fresh, Request
<1> QED  BY <1>1, <1>2, FreshNever

LEMMA EndRivals ==
    ASSUME Inv, NEW r \in Reqs, End(r) PROVE \E x : Outcome(r, x)
<1>1. PICK s \in Sids : ClaimEnd(r, [Fresh EXCEPT !.op = "end", !.sid = s], s)
    BY DEF End
<1>2. PICK old : old = [Fresh EXCEPT !.op = "end", !.sid = s]  OBVIOUS
<1>3. old \in Request /\ old.op = "end" /\ old.ends = 0 /\ old.told = "nothing"
    BY <1>2, FreshRequest DEF Fresh, Request, Ops
<1>4. ClaimEnd(r, old, s)  BY <1>1, <1>2
<1>5. CASE Claimable(s)
  <2>1. PICK x : x = [old EXCEPT !.at = "slot", !.ends = sess[s].life]  OBVIOUS
  <2>2. Become(r, x)  BY <1>4, <1>5, <2>1 DEF ClaimEnd
  <2>3. x.at = "slot" /\ x.op = "end" /\ x.told = "nothing"
      BY <1>3, <2>1 DEF Request
  <2>4. Ender(x) /\ ~Resuming(x)  BY <2>3 DEF Ender, Resuming
  <2>5. Outcome(r, x)  BY <2>2, <2>3, <2>4, NoResume
  <2> QED  BY <2>5
<1>6. CASE ~Claimable(s)
  <2>1. Become(r, Told(old, None, "other"))  BY <1>3, <1>4, <1>6 DEF ClaimEnd
  <2>2. ~(old.ends > 0)  BY <1>2, FreshEnds DEF Ops
  <2> QED  BY <1>3, <2>1, <2>2, HarmlessTold DEF Replies
<1> QED  BY <1>5, <1>6

(* The arrivals that end nothing.                                           *)
LEMMA ReopenRivals ==
    ASSUME Inv, NEW r \in Reqs, Reopen(r) PROVE \E x : Outcome(r, x)
<1>1. PICK s \in Sids :
        LET new == [Fresh EXCEPT !.op = "reopen", !.sid = s]
        IN  Become(r, IF ~Exists(s) \/ Active(s) THEN Told(new, None, "other")
                      ELSE IF ActiveOn(sess[s].topic, s) # {}
                           THEN Told(new, sess[s].topic, "duplicate")
                           ELSE [new EXCEPT !.at = "reopen"])
    BY DEF Reopen
<1>2. PICK new : new = [Fresh EXCEPT !.op = "reopen", !.sid = s]  OBVIOUS
<1>3. new \in Request /\ new.op = "reopen" /\ ~(new.ends > 0)
    BY <1>2, FreshEnds DEF Ops
<1>4. \/ Become(r, Told(new, None, "other"))
      \/ Exists(s) /\ Become(r, Told(new, sess[s].topic, "duplicate"))
      \/ Become(r, [new EXCEPT !.at = "reopen"])
    BY <1>1, <1>2
<1>5. CASE Become(r, Told(new, None, "other"))
    BY <1>3, <1>5, HarmlessTold DEF Replies
<1>6. CASE Exists(s) /\ Become(r, Told(new, sess[s].topic, "duplicate"))
  <2>1. sess[s].topic \in Topics  BY <1>6, Before DEF Row
  <2> QED  BY <1>3, <1>6, <2>1, HarmlessTold DEF Replies
<1>7. CASE Become(r, [new EXCEPT !.at = "reopen"])
  <2>1. PICK x : x = [new EXCEPT !.at = "reopen"]  OBVIOUS
  <2>2. x \in Request /\ x.at = "reopen" /\ x.op = "reopen" /\ ~(x.ends > 0)
      BY <1>3, <2>1 DEF Request, Labels
  <2> QED  BY <1>7, <2>1, <2>2, Harmless
<1> QED  BY <1>4, <1>5, <1>6, <1>7

LEMMA UpdateRivals ==
    ASSUME Inv, NEW r \in Reqs, Update(r) PROVE \E x : Outcome(r, x)
<1>1. PICK s \in Sids, t \in Topics \cup {None}, pin \in Pins :
        LET changed == Exists(s) /\ t # sess[s].topic /\ t # None
            moved   == Exists(s) /\ sess[s].pinned # (pin = "pin")
            new == [Fresh EXCEPT !.op = "update", !.sid = s,
                                 !.topic = IF changed THEN t ELSE None,
                                 !.pin = IF moved THEN pin ELSE "keep"]
        IN  /\ t # None \/ pin # "keep"
            /\ Become(r, IF ~Exists(s) \/ (pin = "pin" /\ ~Active(s)) THEN Told(new, None, "other")
                         ELSE IF t # None /\ Active(s) /\ ActiveOn(t, s) # {}
                              THEN Told(new, t, "duplicate")
                              ELSE [new EXCEPT !.at = "update"])
    BY Zenon DEF Update
<1>2. PICK u \in Topics \cup {None}, v \in Pins :
        /\ u = IF Exists(s) /\ t # sess[s].topic /\ t # None THEN t ELSE None
        /\ v = IF Exists(s) /\ sess[s].pinned # (pin = "pin") THEN pin ELSE "keep"
    BY DEF Pins
<1>3. PICK new : new = [Fresh EXCEPT !.op = "update", !.sid = s, !.topic = u, !.pin = v]
    OBVIOUS
<1>4. new \in Request /\ new.op = "update" /\ ~(new.ends > 0)
  <2>1. new \in Request /\ new.op = "update" /\ new.ends = Fresh.ends
      BY <1>3, FreshRequest DEF Fresh, Request, Ops
  <2> QED  BY <2>1, FreshNever
<1>5. \/ Become(r, Told(new, None, "other"))
      \/ Become(r, Told(new, t, "duplicate"))
      \/ Become(r, [new EXCEPT !.at = "update"])
    BY <1>1, <1>2, <1>3
<1>6. CASE Become(r, Told(new, None, "other"))
    BY <1>4, <1>6, HarmlessTold DEF Replies
<1>7. CASE Become(r, Told(new, t, "duplicate"))
    BY <1>4, <1>7, HarmlessTold DEF Replies
<1>8. CASE Become(r, [new EXCEPT !.at = "update"])
  <2>1. PICK x : x = [new EXCEPT !.at = "update"]  OBVIOUS
  <2>2. x \in Request /\ x.at = "update" /\ x.op = "update" /\ ~(x.ends > 0)
      BY <1>4, <2>1 DEF Request, Labels
  <2> QED  BY <1>8, <2>1, <2>2, Harmless
<1> QED  BY <1>5, <1>6, <1>7, <1>8

LEMMA ChatRivals ==
    ASSUME Inv, NEW r \in Reqs, Chat(r) \/ GetMe(r) PROVE \E x : Outcome(r, x)
<1>1. CASE Chat(r)
  <2>1. PICK s \in Sids :
          LET new == [Fresh EXCEPT !.op = "chat", !.sid = s]
          IN  \/ Become(r, [new EXCEPT !.at = "slot"])
              \/ Become(r, Told(new, None, "other"))
      BY <1>1 DEF Chat
  <2>2. PICK new : new = [Fresh EXCEPT !.op = "chat", !.sid = s]  OBVIOUS
  <2>3. new \in Request /\ new.op = "chat" /\ ~(new.ends > 0)
      BY <2>2, FreshEnds DEF Ops
  <2>4. CASE Become(r, [new EXCEPT !.at = "slot"])
    <3>1. PICK x : x = [new EXCEPT !.at = "slot"]  OBVIOUS
    <3>2. x \in Request /\ x.at = "slot" /\ x.op = "chat" /\ ~(x.ends > 0)
        BY <2>3, <3>1 DEF Request, Labels
    <3> QED  BY <2>4, <3>1, <3>2, Harmless
  <2>5. CASE Become(r, Told(new, None, "other"))
      BY <2>3, <2>5, HarmlessTold DEF Replies
  <2> QED  BY <2>1, <2>2, <2>4, <2>5
<1>2. CASE GetMe(r)
  <2>1. PICK old : old = Fresh  OBVIOUS
  <2>2. old \in Request /\ ~(old.ends > 0)  BY <2>1, FreshRequest, FreshNever
  <2>3. Become(r, Told(old, None, "other"))  BY <1>2, <2>1 DEF GetMe
  <2> QED  BY <2>2, <2>3, HarmlessTold DEF Replies
<1> QED  BY <1>1, <1>2

(* The steps of a reopen, an update and a turn.                             *)
LEMMA CommitRivals ==
    ASSUME Inv, Unrivalled, NEW r \in Reqs, ReopenCommit(r) \/ UpdateCommit(r)
    PROVE  \E x : Outcome(r, x)
<1>1. PICK old \in Request : /\ old = req[r] /\ ~(old.ends > 0) /\ At(r) \in {"reopen", "update"}
                             /\ old.sid \in Sids /\ Exists(old.sid) /\ sess[old.sid] \in Row
                             /\ old.topic \in Topics \cup {None}
  <2>1. /\ Worker(req[r]) /\ Fits(req[r]) /\ req[r].sid \in Sids /\ Exists(req[r].sid)
        /\ At(r) \in {"reopen", "update"}
      BY AtWork DEF ReopenCommit, UpdateCommit, At, OnRow
  <2>2. req[r].op \in {"reopen", "update"}  BY <2>1 DEF Fits, OpFits, At
  <2>3. req[r] \in Request /\ sess[req[r].sid] \in Row  BY <2>1, Before DEF Worker
  <2>4. req[r].topic \in Topics \cup {None}  BY <2>3 DEF Request
  <2>5. ~(req[r].ends > 0)  BY <2>2 DEF Unrivalled, Ender
  <2> QED  BY <2>1, <2>3, <2>4, <2>5
<1>2. PICK t \in Topics \cup {None}, reply \in Replies : Become(r, Told(old, t, reply))
  <2>1. CASE ReopenCommit(r)
    <3>1. sess[old.sid].topic \in Topics  BY <1>1 DEF Row
    <3> QED  BY <1>1, <2>1, <3>1 DEF ReopenCommit, Replies
  <2>2. CASE UpdateCommit(r)
      BY <1>1, <2>2 DEF UpdateCommit, Replies
  <2> QED  BY <2>1, <2>2
<1> QED  BY <1>1, <1>2, HarmlessTold

LEMMA TurnRivals ==
    ASSUME Inv, NEW r \in Reqs,
           \/ Prepare(r) \/ Embed(r) \/ Persist(r) \/ PrepareFails(r)
           \/ Salvage(r) \/ QueryFails(r)
    PROVE  \E x : Outcome(r, x)
<1>1. PICK old \in Request : /\ old = req[r] /\ old.op = "chat" /\ old.ends = 0
                             /\ old.at \in InTurn
    BY InTurnIs DEF Prepare, Embed, Persist, PrepareFails, Salvage, QueryFails, At, InTurn, Turning
<1>2. ASSUME NEW x, Become(r, x), x.at # "idle", x.op = "chat", x.ends = 0
      PROVE  Outcome(r, x)
  <2>1. ~(x.ends > 0)  BY <1>2, NotMore
  <2>2. Ender(x) /\ ~Resuming(x)  BY <1>2 DEF Ender, Resuming
  <2> QED  BY <1>2, <2>1, <2>2, NoResume
<1>3. CASE Prepare(r) \/ QueryFails(r)
  <2>1. PICK at \in {"embed", "persist", "aborted"} : Become(r, [old EXCEPT !.at = at])
      BY <1>1, <1>3 DEF Prepare, QueryFails, Goto
  <2>2. PICK x : x = [old EXCEPT !.at = at]  OBVIOUS
  <2>3. x.at = at /\ x.op = "chat" /\ x.ends = 0  BY <1>1, <2>2 DEF Request
  <2> QED  BY <1>2, <2>1, <2>2, <2>3
<1>4. CASE Embed(r)
  <2>1. PICK x : /\ Become(r, x)
                 /\ \/ x = [old EXCEPT !.at = "persist"]
                    \/ x = [old EXCEPT !.at = "persist", !.made = 1, !.pend = 1]
      BY <1>1, <1>4 DEF Embed, Goto
  <2>2. x.at = "persist" /\ x.op = "chat" /\ x.ends = 0  BY <1>1, <2>1 DEF Request
  <2> QED  BY <1>2, <2>1, <2>2
<1>5. CASE PrepareFails(r)
  <2>1. PICK x : x = [old EXCEPT !.at = "salvage", !.pend = 0]  OBVIOUS
  <2>2. Become(r, x)  BY <1>1, <1>5, <2>1 DEF PrepareFails
  <2>3. x.at = "salvage" /\ x.op = "chat" /\ x.ends = 0  BY <1>1, <2>1 DEF Request
  <2> QED  BY <1>2, <2>2, <2>3
<1>6. CASE Persist(r) \/ Salvage(r)
  <2>1. PICK y : y = Told(old, None, "other")  OBVIOUS
  <2>2. y \in Request /\ y.at = "done" /\ y.op = "chat" /\ y.ends = 0
      BY <1>1, <2>1, ToldIs DEF Same4, Replies
  <2>3. PICK cost, x : Become(r, x) /\ x = [y EXCEPT !.booked = cost, !.kept = TRUE]
      BY <1>1, <1>6, <2>1 DEF Persist, Salvage, Store
  <2>4. x.at = "done" /\ x.op = "chat" /\ x.ends = 0  BY <2>2, <2>3 DEF Request
  <2> QED  BY <1>2, <2>3, <2>4
<1> QED  BY <1>3, <1>4, <1>5, <1>6

(* Whoever is cut off is told nothing.                                      *)
LEMMA CutOffRivals ==
    ASSUME Inv, Unrivalled, NEW r \in Reqs, Crash(r) \/ AbortedCommit(r)
    PROVE  \E x : Outcome(r, x)
<1>1. PICK old \in Request : old = req[r] /\ old.told = "nothing" /\ Ender(old)
    BY AtWork DEF Crash, AbortedCommit, At, Worker, Unrivalled
<1>2. PICK where \in {"dead", "lost"} : Become(r, Over(old, where))
    BY <1>1 DEF Crash, AbortedCommit
<1>3. PICK x : x = Over(old, where)  OBVIOUS
<1>4. x.at = where /\ x.told = "nothing" /\ x.op = old.op /\ x.ends = old.ends
    BY <1>1, <1>3, OverIs DEF Same4
<1>5. Ender(x) /\ ~Resuming(x)  BY <1>1, <1>4 DEF Ender, Resuming, Working
<1>6. Outcome(r, x)  BY <1>2, <1>3, <1>4, <1>5, NoResume
<1> QED  BY <1>6

LEMMA UnrivalledStep == Inv /\ Unrivalled /\ [Next]_vars => Unrivalled'
<1> SUFFICES ASSUME Inv, Unrivalled, [Next]_vars PROVE Unrivalled'
    OBVIOUS
<1>1. CASE UNCHANGED vars
  <2>1. sess' = sess /\ req' = req  BY <1>1 DEF vars
  <2> QED  BY <2>1 DEF Unrivalled, Ender, Solo, At, Clear, Resuming, Working, ActiveOn, Active,
                       Exists
<1>2. ASSUME NEW r \in Reqs, Arrive(r) PROVE \E x : Outcome(r, x)
    BY <1>2, CreateRivals, EndRivals, ReopenRivals, UpdateRivals, ChatRivals DEF Arrive
<1>3. ASSUME NEW r \in Reqs, Step(r) PROVE \E x : Outcome(r, x)
    BY <1>3, ClaimPriorRivals, SummaryRivals, InsertRivals, CommitRivals, TurnRivals,
       CutOffRivals
    DEF Step
<1>4. ASSUME NEW r \in Reqs, Crash(r) PROVE \E x : Outcome(r, x)
    BY <1>4, CutOffRivals
<1>5. CASE Next
  <2>1. PICK r \in Reqs : \E x : Outcome(r, x)  BY <1>2, <1>3, <1>4, <1>5 DEF Next
  <2> QED  BY <2>1, OutcomeKeeps
<1> QED  BY <1>1, <1>5

LEMMA InitUnrivalled == Init => Unrivalled
<1> SUFFICES ASSUME Init, NEW r \in Reqs PROVE Ender(req[r]) /\ Clear(req[r])
    BY DEF Unrivalled
<1>1. PICK x : x = req[r] /\ x.at = "idle" /\ x.ends = 0 /\ x.op = "none"
  <2>1. req[r] = Fresh  BY DEF Init
  <2>2. Fresh.at = "idle" /\ Fresh.ends = 0 /\ Fresh.op = "none"  BY DEF Fresh
  <2> QED  BY <2>1, <2>2
<1>2. ~(x.ends > 0)  BY <1>1, NotMore
<1> QED  BY <1>1, <1>2 DEF Ender, Clear, Resuming

(* A resume is refused before it ends its prior: only a request that shared *)
(* the sessions with another one is told of a duplicate after its claim.    *)
THEOREM NoEndInVain == Spec => []NoFutileEnd
<1>1. Unrivalled => NoFutileEnd
    BY DEF Unrivalled, Clear, Solo, NoFutileEnd
<1>2. Inv /\ Unrivalled /\ [Next]_vars => Inv' /\ Unrivalled'
    BY InvInductive, UnrivalledStep
<1> QED  BY <1>1, <1>2, InitInv, InitUnrivalled, PTL DEF Spec

-----------------------------------------------------------------------------
(* The session routes implement TopicRegistry: every step is a step of the  *)
(* registry or leaves what the registry shows alone.                        *)
HeldBy(s) == IF Active(s) THEN sess[s].topic ELSE None
HeldStays == \A s \in Sids : HeldBy(s)' = HeldBy(s)
HeldMoves(s, t) == HeldBy(s)' = t /\ \A z \in Sids \ {s} : HeldBy(z)' = HeldBy(z)

RegistryHeld  == [s \in Sids |-> HeldBy(s)]
RegistryAsked == [r \in Reqs |-> req[r].topic]
RegistryTold  == [r \in Reqs |-> req[r].told]
RegistryStep  == [Registry!Next]_<<RegistryHeld, RegistryAsked, RegistryTold>>

LEMMA Shows ==
    ASSUME Inv, NEW r \in Reqs, NEW x, Become(r, x)
    PROVE  /\ RegistryAsked' = [RegistryAsked EXCEPT ![r] = x.topic]
           /\ RegistryTold' = [RegistryTold EXCEPT ![r] = x.told]
           /\ RegistryAsked[r] = req[r].topic /\ RegistryTold[r] = req[r].told
BY DEF Inv, TypeOK, Become, RegistryAsked, RegistryTold

LEMMA ShowsNothing ==
    ASSUME Inv, NEW r \in Reqs, NEW x, Become(r, x)
    PROVE  /\ x.topic = req[r].topic => RegistryAsked' = RegistryAsked
           /\ x.told = req[r].told => RegistryTold' = RegistryTold
<1>1. req'[r] = x /\ \A q \in Reqs \ {r} : req'[q] = req[q]
    BY DEF Inv, TypeOK, Become
<1>2. x.topic = req[r].topic => RegistryAsked' = RegistryAsked
    BY <1>1 DEF RegistryAsked
<1>3. x.told = req[r].told => RegistryTold' = RegistryTold
    BY <1>1 DEF RegistryTold
<1> QED  BY <1>2, <1>3

LEMMA HeldSame == ASSUME HeldStays PROVE RegistryHeld' = RegistryHeld
BY DEF HeldStays, RegistryHeld

LEMMA HeldNew ==
    ASSUME NEW s \in Sids, NEW t, HeldMoves(s, t)
    PROVE  RegistryHeld' = [RegistryHeld EXCEPT ![s] = t]
BY DEF HeldMoves, RegistryHeld

(* A request goes on without asking or being told anything.                 *)
LEMMA Quiet ==
    ASSUME Inv, NEW r \in Reqs, NEW x, Become(r, x), HeldStays,
           x.topic = req[r].topic, x.told = req[r].told
    PROVE  RegistryStep
<1>1. RegistryAsked' = RegistryAsked /\ RegistryTold' = RegistryTold
    BY ShowsNothing
<1> QED  BY <1>1, HeldSame DEF RegistryStep

LEMMA Answers ==
    ASSUME Inv, NEW r \in Reqs, NEW x, Become(r, x), HeldStays,
           x.topic = req[r].topic, req[r].told = "nothing", x.told = "other"
    PROVE  RegistryStep
<1>1. RegistryAsked' = RegistryAsked  BY ShowsNothing
<1>2. RegistryTold' = [RegistryTold EXCEPT ![r] = "other"] /\ req[r].told = "nothing"
    BY Shows
<1>3. RegistryHeld' = RegistryHeld  BY HeldSame
<1>4. [q \in Reqs |-> req[q].told][r] = "nothing"  OBVIOUS
<1>5. Registry!Answer(r)
    BY <1>1, <1>2, <1>3, <1>4
    DEF Registry!Answer, RegistryHeld, RegistryAsked, RegistryTold, HeldBy
<1> QED  BY <1>5 DEF RegistryStep, Registry!Next

Waits(r, t) == req[r].told = "nothing" /\ req[r].topic \in {None, t}
LEMMA WaitsIs ==
    ASSUME NEW r \in Reqs, NEW t, Waits(r, t)
    PROVE  Registry!Waiting(r, t)
BY DEF Waits, Registry!Waiting

LEMMA SaysIs ==
    ASSUME Inv, NEW r \in Reqs, NEW x, Become(r, x)
    PROVE  Registry!Says(r, x.topic, x.told)
BY Shows DEF Registry!Says, RegistryAsked, RegistryTold

LEMMA Asks ==
    ASSUME Inv, NEW r \in Reqs, NEW t \in Topics, NEW x, Become(r, x), HeldStays, Waits(r, t),
           x.topic = t, x.told = "nothing"
    PROVE  RegistryStep
<1>1. Registry!Ask(r, t)
    BY WaitsIs, SaysIs, HeldSame DEF Registry!Ask, RegistryHeld, HeldBy
<1> QED  BY <1>1 DEF RegistryStep, Registry!Next

LEMMA Refuses ==
    ASSUME Inv, NEW r \in Reqs, NEW t \in Topics, NEW x, Become(r, x), HeldStays, Waits(r, t),
           x.topic = t, x.told = "duplicate", NEW s, ActiveOn(t, s) # {}
    PROVE  RegistryStep
<1>1. \E z \in Sids : HeldBy(z) = t  BY DEF ActiveOn, HeldBy
<1>2. Registry!Held(t)  BY <1>1 DEF Registry!Held, HeldBy
<1>3. Registry!Refuse(r, t)
    BY <1>2, WaitsIs, SaysIs, HeldSame DEF Registry!Refuse, RegistryHeld, HeldBy
<1> QED  BY <1>3 DEF RegistryStep, Registry!Next

LEMMA Takes ==
    ASSUME Inv, NEW r \in Reqs, NEW s \in Sids, NEW t \in Topics, NEW x, Become(r, x),
           HeldMoves(s, t), Waits(r, t), x.topic = t, x.told = "taken",
           \A z \in Sids \ {s} : HeldBy(z) # t
    PROVE  RegistryStep
<1>1. Registry!Free(t, s)  BY DEF Registry!Free, HeldBy
<1>2. RegistryHeld' = [RegistryHeld EXCEPT ![s] = t]  BY HeldNew
<1>3. Registry!Take(r, s, t)
    BY <1>1, <1>2, WaitsIs, SaysIs DEF Registry!Take, RegistryHeld, HeldBy
<1> QED  BY <1>3 DEF RegistryStep, Registry!Next

LEMMA Leaves ==
    ASSUME Inv, NEW r \in Reqs, NEW s \in Sids, NEW x, Become(r, x),
           HeldBy(s) # None, HeldMoves(s, None), x.topic = req[r].topic, x.told = req[r].told
    PROVE  RegistryStep
<1>1. RegistryAsked' = RegistryAsked /\ RegistryTold' = RegistryTold
    BY ShowsNothing
<1>2. RegistryHeld' = [RegistryHeld EXCEPT ![s] = None]  BY HeldNew
<1>3. Registry!Leave(s)
    BY <1>1, <1>2 DEF Registry!Leave, RegistryHeld, RegistryAsked, RegistryTold, HeldBy
<1> QED  BY <1>3 DEF RegistryStep, Registry!Next

-----------------------------------------------------------------------------
(* What a step does to the rows, as the registry sees it.                   *)
LEMMA RowsStay == ASSUME UNCHANGED sess PROVE HeldStays
BY DEF HeldStays, HeldBy, Active, Exists

LEMMA RowMoves ==
    ASSUME Inv, NEW s \in Sids, NEW row \in Row, sess' = [sess EXCEPT ![s] = row]
    PROVE  HeldMoves(s, IF row.active THEN row.topic ELSE None)
<1>1. sess'[s] = row /\ row # None /\ \A z \in Sids \ {s} : sess'[z] = sess[z]
    BY NoneOK DEF Inv, TypeOK
<1> QED  BY <1>1 DEF HeldMoves, HeldBy, Active, Exists

LEMMA RowKeeps ==
    ASSUME Inv, NEW s \in Sids, Exists(s), NEW row \in Row, sess' = [sess EXCEPT ![s] = row],
           row.active = sess[s].active, row.active => row.topic = sess[s].topic
    PROVE  HeldStays
<1>1. sess'[s] = row /\ row # None /\ \A z \in Sids \ {s} : sess'[z] = sess[z]
    BY NoneOK DEF Inv, TypeOK
<1> QED  BY <1>1 DEF HeldStays, HeldBy, Active, Exists

LEMMA FreeIs ==
    ASSUME NEW t \in Topics, NEW s, IndexAllows(t, s)
    PROVE  \A z \in Sids \ {s} : HeldBy(z) # t
BY LifecycleOK DEF IndexAllows, ActiveOn, HeldBy

-----------------------------------------------------------------------------
(* One lemma per action: the step of the registry it is.                    *)
LEMMA Starts ==
    ASSUME Inv, NEW r \in Reqs, At(r) = "idle"
    PROVE  req[r].topic = None /\ req[r].told = "nothing" /\ \A t : Waits(r, t)
BY Blank DEF Fresh, Waits

LEMMA Works ==
    ASSUME Inv, NEW r \in Reqs, At(r) \notin {"idle", "done", "dead", "lost"}
    PROVE  /\ req[r] \in Request /\ req[r].told = "nothing" /\ Waits(r, req[r].topic)
           /\ req[r].op = "create" => req[r].topic \in Topics
           /\ req[r].op \in {"end", "chat", "reopen"} => req[r].topic = None
BY AtWork DEF Worker, Waits

LEMMA ToldShows ==
    ASSUME NEW old \in Request, NEW t \in Topics \cup {None}, NEW reply \in Replies
    PROVE  Told(old, t, reply).topic = t /\ Told(old, t, reply).told = reply
BY ToldIs

LEMMA CreateMaps == ASSUME Inv, NEW r \in Reqs, Create(r) PROVE RegistryStep
<1>1. PICK t \in Topics, p \in Sids \cup {None}, claim \in {"given", "not given"} :
        LET new == [Fresh EXCEPT !.op = "create", !.sid = p, !.topic = t,
                                 !.consent = NewUser(r, claim)]
        IN  Become(r, IF Rivals(t, p) # {} THEN Told(new, t, "duplicate")
                      ELSE IF p = None THEN [new EXCEPT !.at = "insert"]
                      ELSE IF ~Exists(p) THEN Told(new, None, "other")
                      ELSE [new EXCEPT !.at = IF Active(p) THEN "claim" ELSE "seed"])
    BY DEF Create
<1>2. PICK new : new = [Fresh EXCEPT !.op = "create", !.sid = p, !.topic = t,
                                     !.consent = NewUser(r, claim)]
    OBVIOUS
<1>3. new \in Request /\ new.topic = t /\ new.told = "nothing"
  <2>1. NewUser(r, claim) \in {"absent", "given", "not given"}  BY DEF NewUser
  <2>2. Fresh.told = "nothing"  BY DEF Fresh
  <2> QED  BY <1>2, <2>1, <2>2, FreshRequest DEF Request, Ops
<1>4. HeldStays /\ Waits(r, t) /\ req[r].topic = None /\ req[r].told = "nothing"
    BY RowsStay, Starts DEF Create
<1>8. /\ new \in Request /\ t \in Topics \cup {None} /\ None \in Topics \cup {None}
      /\ "duplicate" \in Replies /\ "other" \in Replies
    BY <1>3 DEF Replies
<1>9. \A u \in Topics \cup {None}, reply \in Replies :
        Told(new, u, reply).topic = u /\ Told(new, u, reply).told = reply
    BY <1>8, ToldShows
<1>5. CASE Rivals(t, p) # {}
  <2>1. PICK x : x = Told(new, t, "duplicate")  OBVIOUS
  <2>2. Become(r, x) /\ ActiveOn(t, p) # {}  BY <1>1, <1>2, <1>5, <2>1 DEF Rivals
  <2>3. x.topic = t /\ x.told = "duplicate"  BY <1>8, <1>9, <2>1
  <2> QED  BY <1>4, <2>2, <2>3, Refuses
<1>6. CASE Rivals(t, p) = {} /\ p # None /\ ~Exists(p)
  <2>1. PICK x : x = Told(new, None, "other")  OBVIOUS
  <2>2. Become(r, x)  BY <1>1, <1>2, <1>6, <2>1
  <2>3. x.topic = None /\ x.told = "other"  BY <1>8, <1>9, <2>1
  <2> QED  BY <1>4, <2>2, <2>3, Answers
<1>7. CASE Rivals(t, p) = {} /\ (p = None \/ Exists(p))
  <2>1. PICK at \in Labels : Become(r, [new EXCEPT !.at = at])
      BY <1>1, <1>2, <1>7 DEF Labels
  <2>2. PICK x : x = [new EXCEPT !.at = at]  OBVIOUS
  <2>3. x.topic = t /\ x.told = "nothing"  BY <1>3, <2>2 DEF Request
  <2>4. Become(r, x)  BY <2>1, <2>2
  <2> QED  BY <1>4, <2>3, <2>4, Asks
<1> QED  BY <1>5, <1>6, <1>7

(* The claim of an end: the session leaves its topic.                       *)
LEMMA ClaimMaps ==
    ASSUME Inv, NEW r \in Reqs, NEW s \in Sids, Active(s), NEW x, Become(r, x),
           sess' = [sess EXCEPT ![s].active = FALSE],
           x.topic = req[r].topic, x.told = req[r].told
    PROVE  RegistryStep
<1>1. sess[s] \in Row  BY Before DEF Active
<1>2. PICK row \in Row : sess' = [sess EXCEPT ![s] = row] /\ row.active = FALSE
  <2>1. [sess[s] EXCEPT !.active = FALSE] \in Row
        /\ [sess[s] EXCEPT !.active = FALSE].active = FALSE
      BY <1>1 DEF Row
  <2> QED  BY <2>1
<1>3. HeldMoves(s, None)
  <2>1. HeldMoves(s, IF row.active THEN row.topic ELSE None)  BY <1>2, RowMoves
  <2> QED  BY <1>2, <2>1
<1>4. HeldBy(s) # None  BY <1>1, LifecycleOK DEF HeldBy, Row
<1> QED  BY <1>3, <1>4, Leaves

LEMMA EndMaps == ASSUME Inv, NEW r \in Reqs, End(r) PROVE RegistryStep
<1>1. PICK s \in Sids : ClaimEnd(r, [Fresh EXCEPT !.op = "end", !.sid = s], s)
    BY DEF End
<1>2. PICK old : old = [Fresh EXCEPT !.op = "end", !.sid = s]  OBVIOUS
<1>3. old \in Request /\ old.op = "end" /\ old.topic = None /\ old.told = "nothing"
    BY <1>2, FreshRequest DEF Fresh, Request, Ops
<1>4. ClaimEnd(r, old, s) /\ req[r].topic = None /\ req[r].told = "nothing"
    BY <1>1, <1>2, Starts DEF End
<1>5. CASE Claimable(s)
  <2>1. PICK x : x = [old EXCEPT !.at = "slot", !.ends = sess[s].life]  OBVIOUS
  <2>2. sess' = [sess EXCEPT ![s].active = FALSE] /\ Become(r, x) /\ Active(s)
      BY <1>4, <1>5, <2>1 DEF ClaimEnd, Claimable
  <2>3. x.topic = None /\ x.told = "nothing"  BY <1>3, <2>1 DEF Request
  <2> QED  BY <1>4, <2>2, <2>3, ClaimMaps
<1>6. CASE ~Claimable(s)
  <2>1. PICK x : x = Told(old, None, "other")  OBVIOUS
  <2>2. Become(r, x) /\ UNCHANGED sess  BY <1>3, <1>4, <1>6, <2>1 DEF ClaimEnd
  <2>3. x.topic = None /\ x.told = "other"  BY <1>3, <2>1, ToldShows DEF Replies
  <2> QED  BY <1>4, <2>2, <2>3, Answers, RowsStay
<1> QED  BY <1>5, <1>6

LEMMA ClaimPriorMaps == ASSUME Inv, NEW r \in Reqs, ClaimPrior(r) PROVE RegistryStep
<1> DEFINE old == req[r]
<1>1. /\ old \in Request /\ old.op = "create" /\ old.sid \in Sids
      /\ ClaimEnd(r, old, old.sid)
    BY AtWork DEF ClaimPrior, At, Worker, Fits, OpFits, OnRow
<1>2. CASE Claimable(old.sid)
  <2>1. PICK x : x = [old EXCEPT !.at = "slot", !.ends = sess[old.sid].life]  OBVIOUS
  <2>2. sess' = [sess EXCEPT ![old.sid].active = FALSE] /\ Become(r, x) /\ Active(old.sid)
      BY <1>1, <1>2, <2>1 DEF ClaimEnd, Claimable
  <2>3. x.topic = old.topic /\ x.told = old.told  BY <1>1, <2>1 DEF Request
  <2> QED  BY <1>1, <2>2, <2>3, ClaimMaps
<1>3. CASE ~Claimable(old.sid)
  <2>1. PICK x : x = [old EXCEPT !.at = "seed"]  OBVIOUS
  <2>2. Become(r, x) /\ UNCHANGED sess  BY <1>1, <1>3, <2>1 DEF ClaimEnd
  <2>3. x.topic = old.topic /\ x.told = old.told  BY <1>1, <2>1 DEF Request
  <2> QED  BY <2>2, <2>3, Quiet, RowsStay
<1> QED  BY <1>2, <1>3

LEMMA InsertMaps == ASSUME Inv, NEW r \in Reqs, Insert(r) PROVE RegistryStep
<1> DEFINE old == req[r]
<1>0. PICK t : t = old.topic  OBVIOUS
<1>1. old \in Request /\ t \in Topics /\ Waits(r, t) /\ old.seed \in Summaries
  <2>1. At(r) = "insert"  BY DEF Insert
  <2>2. old.op = "create"  BY <2>1, AtWork DEF At, Fits, OpFits
  <2>3. old \in Request /\ old.topic \in Topics /\ Waits(r, old.topic)  BY <2>1, <2>2, Works
  <2> QED  BY <1>0, <2>3 DEF Request
<1>2. CASE IndexAllows(t, None)
  <2>1. PICK s \in Sids :
          sess' = [sess EXCEPT ![s] = [topic |-> t, active |-> TRUE, pinned |-> FALSE,
                                       talked |-> FALSE, life |-> 1, summary |-> old.seed]]
      BY <1>0, <1>2 DEF Insert
  <2>2. PICK row \in Row : sess' = [sess EXCEPT ![s] = row] /\ row.active = TRUE /\ row.topic = t
    <3>1. [topic |-> t, active |-> TRUE, pinned |-> FALSE, talked |-> FALSE,
           life |-> 1, summary |-> old.seed] \in Row
        BY <1>1 DEF Row
    <3> QED  BY <2>1, <3>1
  <2>3. HeldMoves(s, t)
    <3>1. HeldMoves(s, IF row.active THEN row.topic ELSE None)  BY <2>2, RowMoves
    <3> QED  BY <2>2, <3>1
  <2>4. PICK x : x = Told(old, t, "taken")  OBVIOUS
  <2>5. Become(r, x)  BY <1>0, <1>2, <2>4 DEF Insert
  <2>6. x.topic = t /\ x.told = "taken"  BY <1>1, <2>4, ToldShows DEF Replies
  <2>7. \A z \in Sids \ {s} : HeldBy(z) # t
    <3>1. \A z \in Sids \ {None} : HeldBy(z) # t  BY <1>1, <1>2, FreeIs
    <3> QED  BY <3>1, LifecycleOK
  <2> QED  BY <1>1, <2>3, <2>5, <2>6, <2>7, Takes
<1>3. CASE ~IndexAllows(t, None)
  <2>1. PICK x : x = Told(old, t, "duplicate")  OBVIOUS
  <2>2. Become(r, x) /\ UNCHANGED sess  BY <1>0, <1>3, <2>1 DEF Insert
  <2>3. x.topic = t /\ x.told = "duplicate"  BY <1>1, <2>1, ToldShows DEF Replies
  <2>4. ActiveOn(t, None) # {}  BY <1>3 DEF IndexAllows
  <2> QED  BY <1>1, <2>2, <2>3, <2>4, Refuses, RowsStay
<1> QED  BY <1>2, <1>3

LEMMA ReopenMaps == ASSUME Inv, NEW r \in Reqs, Reopen(r) PROVE RegistryStep
<1>1. PICK s \in Sids :
        LET new == [Fresh EXCEPT !.op = "reopen", !.sid = s]
        IN  Become(r, IF ~Exists(s) \/ Active(s) THEN Told(new, None, "other")
                      ELSE IF ActiveOn(sess[s].topic, s) # {}
                           THEN Told(new, sess[s].topic, "duplicate")
                           ELSE [new EXCEPT !.at = "reopen"])
    BY DEF Reopen
<1>2. PICK new : new = [Fresh EXCEPT !.op = "reopen", !.sid = s]  OBVIOUS
<1>3. new \in Request /\ new.topic = None /\ new.told = "nothing"
    BY <1>2, FreshRequest DEF Fresh, Request, Ops
<1>4. HeldStays /\ req[r].topic = None /\ req[r].told = "nothing" /\ \A t : Waits(r, t)
    BY RowsStay, Starts DEF Reopen
<1>5. CASE ~Exists(s) \/ Active(s)
  <2>1. PICK x : x = Told(new, None, "other")  OBVIOUS
  <2>2. Become(r, x)  BY <1>1, <1>2, <1>5, <2>1
  <2>3. x.topic = None /\ x.told = "other"  BY <1>3, <2>1, ToldShows DEF Replies
  <2> QED  BY <1>4, <2>2, <2>3, Answers
<1>6. CASE Exists(s) /\ ~Active(s) /\ ActiveOn(sess[s].topic, s) # {}
  <2>1. PICK t : t = sess[s].topic  OBVIOUS
  <2>2. t \in Topics  BY <1>6, <2>1, Before DEF Row
  <2>3. PICK x : x = Told(new, t, "duplicate")  OBVIOUS
  <2>4. Become(r, x) /\ ActiveOn(t, s) # {}  BY <1>1, <1>2, <1>6, <2>1, <2>3
  <2>5. x.topic = t /\ x.told = "duplicate"  BY <1>3, <2>2, <2>3, ToldShows DEF Replies
  <2> QED  BY <1>4, <2>2, <2>4, <2>5, Refuses
<1>7. CASE Exists(s) /\ ~Active(s) /\ ActiveOn(sess[s].topic, s) = {}
  <2>1. PICK x : x = [new EXCEPT !.at = "reopen"]  OBVIOUS
  <2>2. Become(r, x)  BY <1>1, <1>2, <1>7, <2>1
  <2>3. x.topic = None /\ x.told = "nothing"  BY <1>3, <2>1 DEF Request
  <2> QED  BY <1>4, <2>2, <2>3, Quiet
<1> QED  BY <1>5, <1>6, <1>7

LEMMA ReopenCommitMaps == ASSUME Inv, NEW r \in Reqs, ReopenCommit(r) PROVE RegistryStep
<1> DEFINE old == req[r]
<1>0. PICK s, t : s = old.sid /\ t = sess[s].topic  OBVIOUS
<1>1. /\ old \in Request /\ old.told = "nothing" /\ Waits(r, t)
      /\ s \in Sids /\ sess[s] \in Row /\ t \in Topics
  <2>1. At(r) = "reopen"  BY DEF ReopenCommit
  <2>2. old.op = "reopen" /\ s \in Sids /\ Exists(s)
      BY <1>0, <2>1, AtWork DEF At, Fits, OpFits, OnRow
  <2>3. sess[s] \in Row  BY <2>2, Before
  <2>4. old \in Request /\ old.told = "nothing" /\ old.topic = None  BY <2>1, <2>2, Works
  <2> QED  BY <1>0, <2>2, <2>3, <2>4 DEF Row, Waits
<1>2. CASE IndexAllows(t, s)
  <2>1. sess' = [sess EXCEPT ![s].active = TRUE, ![s].life = @ + 1]
      BY <1>0, <1>2 DEF ReopenCommit
  <2>2. sess[s].life \in Nat  BY <1>1 DEF Row
  <2>3. PICK row \in Row : sess' = [sess EXCEPT ![s] = row] /\ row.active = TRUE /\ row.topic = t
    <3>1. PICK row : row = [sess[s] EXCEPT !.active = TRUE, !.life = @ + 1]  OBVIOUS
    <3>2. \A n \in Nat : n + 1 \in Nat  OBVIOUS
    <3>3. row \in Row /\ row.active = TRUE /\ row.topic = t
        BY <1>0, <1>1, <2>2, <3>1, <3>2 DEF Row
    <3>4. sess' = [sess EXCEPT ![s] = row]
        BY <1>1, <2>1, <3>1 DEF Inv, TypeOK, Row
    <3> QED  BY <3>3, <3>4
  <2>4. HeldMoves(s, t)
    <3>1. HeldMoves(s, IF row.active THEN row.topic ELSE None)  BY <1>1, <2>3, RowMoves
    <3> QED  BY <2>3, <3>1
  <2>5. PICK x : x = Told(old, t, "taken")  OBVIOUS
  <2>6. Become(r, x)  BY <1>0, <1>2, <2>5 DEF ReopenCommit
  <2>7. x.topic = t /\ x.told = "taken"  BY <1>1, <2>5, ToldShows DEF Replies
  <2>8. \A z \in Sids \ {s} : HeldBy(z) # t  BY <1>1, <1>2, FreeIs
  <2> QED  BY <1>1, <2>4, <2>6, <2>7, <2>8, Takes
<1>3. CASE ~IndexAllows(t, s)
  <2>1. PICK x : x = Told(old, t, "duplicate")  OBVIOUS
  <2>2. Become(r, x) /\ UNCHANGED sess  BY <1>0, <1>3, <2>1 DEF ReopenCommit
  <2>3. x.topic = t /\ x.told = "duplicate"  BY <1>1, <2>1, ToldShows DEF Replies
  <2>4. ActiveOn(t, s) # {}  BY <1>3 DEF IndexAllows
  <2> QED  BY <1>1, <2>2, <2>3, <2>4, Refuses, RowsStay
<1> QED  BY <1>2, <1>3

LEMMA UpdateMaps == ASSUME Inv, NEW r \in Reqs, Update(r) PROVE RegistryStep
<1>0. PICK s \in Sids, t \in Topics \cup {None}, pin \in Pins :
        LET changed == Exists(s) /\ t # sess[s].topic /\ t # None
            moved   == Exists(s) /\ sess[s].pinned # (pin = "pin")
            new == [Fresh EXCEPT !.op = "update", !.sid = s,
                                 !.topic = IF changed THEN t ELSE None,
                                 !.pin = IF moved THEN pin ELSE "keep"]
        IN  /\ t # None \/ pin # "keep"
            /\ Become(r, IF ~Exists(s) \/ (pin = "pin" /\ ~Active(s)) THEN Told(new, None, "other")
                         ELSE IF t # None /\ Active(s) /\ ActiveOn(t, s) # {}
                              THEN Told(new, t, "duplicate")
                              ELSE [new EXCEPT !.at = "update"])
    BY Zenon DEF Update
<1> DEFINE topic  == IF Exists(s) /\ t # sess[s].topic /\ t # None THEN t ELSE None
           pinned == IF Exists(s) /\ sess[s].pinned # (pin = "pin") THEN pin ELSE "keep"
<1>1. PICK u, v : u = topic /\ v = pinned  OBVIOUS
<1>2. PICK new : new = [Fresh EXCEPT !.op = "update", !.sid = s, !.topic = u, !.pin = v]
    OBVIOUS
<1>3. Become(r, IF ~Exists(s) \/ (pin = "pin" /\ ~Active(s)) THEN Told(new, None, "other")
                ELSE IF t # None /\ Active(s) /\ ActiveOn(t, s) # {}
                     THEN Told(new, t, "duplicate")
                     ELSE [new EXCEPT !.at = "update"])
    BY <1>0, <1>1, <1>2
<1>4. u \in Topics \cup {None} /\ v \in Pins  BY <1>1 DEF Pins
<1> HIDE DEF topic, pinned
<1>5. new \in Request /\ new.topic = u /\ new.told = "nothing"
    BY <1>2, <1>4, FreshRequest DEF Fresh, Request, Ops
<1>6. HeldStays /\ req[r].topic = None /\ req[r].told = "nothing" /\ \A z : Waits(r, z)
    BY RowsStay, Starts DEF Update
<1>7. \A z \in Topics \cup {None}, reply \in Replies :
        Told(new, z, reply).topic = z /\ Told(new, z, reply).told = reply
    BY <1>5, ToldShows
<1>8. CASE ~Exists(s) \/ (pin = "pin" /\ ~Active(s))
  <2>1. PICK x : x = Told(new, None, "other")  OBVIOUS
  <2>2. Become(r, x)  BY <1>3, <1>8, <2>1
  <2>3. x.topic = None /\ x.told = "other"  BY <1>7, <2>1 DEF Replies
  <2> QED  BY <1>6, <2>2, <2>3, Answers
<1>9. CASE /\ ~(~Exists(s) \/ (pin = "pin" /\ ~Active(s)))
           /\ t # None /\ Active(s) /\ ActiveOn(t, s) # {}
  <2>1. PICK x : x = Told(new, t, "duplicate")  OBVIOUS
  <2>2. Become(r, x)  BY <1>3, <1>9, <2>1
  <2>3. x.topic = t /\ x.told = "duplicate" /\ t \in Topics  BY <1>7, <1>9, <2>1 DEF Replies
  <2> QED  BY <1>6, <1>9, <2>2, <2>3, Refuses
<1>10. CASE /\ ~(~Exists(s) \/ (pin = "pin" /\ ~Active(s)))
            /\ ~(t # None /\ Active(s) /\ ActiveOn(t, s) # {})
  <2>1. PICK x : x = [new EXCEPT !.at = "update"]  OBVIOUS
  <2>2. Become(r, x)  BY <1>3, <1>10, <2>1
  <2>3. x.topic = u /\ x.told = "nothing"  BY <1>5, <2>1 DEF Request
  <2>4. CASE u = None  BY <1>6, <2>2, <2>3, <2>4, Quiet
  <2>5. CASE u \in Topics  BY <1>6, <2>2, <2>3, <2>5, Asks
  <2> QED  BY <1>4, <2>4, <2>5
<1> QED  BY <1>8, <1>9, <1>10

LEMMA UpdateCommitMaps == ASSUME Inv, NEW r \in Reqs, UpdateCommit(r) PROVE RegistryStep
<1> DEFINE old == req[r]
<1>0. PICK s, t : s = old.sid /\ t = old.topic  OBVIOUS
<1>1. /\ old \in Request /\ old.told = "nothing" /\ Waits(r, t) /\ old.pin \in Pins
      /\ s \in Sids /\ Exists(s) /\ sess[s] \in Row /\ t \in Topics \cup {None}
  <2>1. At(r) = "update"  BY DEF UpdateCommit
  <2>2. s \in Sids /\ Exists(s)  BY <1>0, <2>1, AtWork DEF OnRow
  <2>3. sess[s] \in Row  BY <2>2, Before
  <2>4. old \in Request /\ old.told = "nothing" /\ Waits(r, old.topic)  BY <2>1, Works
  <2> QED  BY <1>0, <2>2, <2>3, <2>4 DEF Request
<1>2. \A z \in Topics \cup {None}, reply \in Replies :
        Told(old, z, reply).topic = z /\ Told(old, z, reply).told = reply
    BY <1>1, ToldShows
<1>3. CASE t # None /\ Active(s) /\ ~IndexAllows(t, s)
  <2>1. PICK x : x = Told(old, t, "duplicate")  OBVIOUS
  <2>2. Become(r, x) /\ UNCHANGED sess  BY <1>0, <1>3, <2>1 DEF UpdateCommit
  <2>3. x.topic = t /\ x.told = "duplicate" /\ t \in Topics
      BY <1>1, <1>2, <1>3, <2>1 DEF Replies
  <2>4. ActiveOn(t, s) # {}  BY <1>3 DEF IndexAllows
  <2> QED  BY <1>1, <2>2, <2>3, <2>4, Refuses, RowsStay
<1>4. CASE ~(t # None /\ Active(s) /\ ~IndexAllows(t, s))
  <2>1. PICK row : row = [sess[s] EXCEPT !.pinned = IF old.pin = "keep" THEN @ ELSE old.pin = "pin",
                                         !.topic = IF t = None THEN @ ELSE t]
      OBVIOUS
  <2>2. /\ row \in Row /\ row.active = sess[s].active
        /\ row.topic = IF t = None THEN sess[s].topic ELSE t
    <3>1. (IF old.pin = "keep" THEN sess[s].pinned ELSE old.pin = "pin") \in BOOLEAN
        BY <1>1, <1>2 DEF Row
    <3>2. (IF t = None THEN sess[s].topic ELSE t) \in Topics  BY <1>1 DEF Row
    <3> QED  BY <1>1, <2>1, <3>1, <3>2 DEF Row
  <2>3. /\ sess' = [sess EXCEPT ![s] = row]
        /\ Become(r, Told(old, t, IF t # None /\ Active(s) THEN "taken" ELSE "other"))
      BY <1>0, <1>4, <2>1 DEF UpdateCommit
  <2>4. CASE t # None /\ Active(s)
    <3>1. PICK x : x = Told(old, t, "taken")  OBVIOUS
    <3>2. Become(r, x)  BY <2>3, <2>4, <3>1
    <3>3. x.topic = t /\ x.told = "taken" /\ t \in Topics  BY <1>1, <1>2, <2>4, <3>1 DEF Replies
    <3>4. HeldMoves(s, t)
      <4>1. HeldMoves(s, IF row.active THEN row.topic ELSE None)  BY <1>1, <2>2, <2>3, RowMoves
      <4> QED  BY <2>2, <2>4, <4>1 DEF Active
    <3>5. \A z \in Sids \ {s} : HeldBy(z) # t  BY <1>4, <2>4, <3>3, FreeIs
    <3> QED  BY <1>1, <3>2, <3>3, <3>4, <3>5, Takes
  <2>5. CASE ~(t # None /\ Active(s))
    <3>1. PICK x : x = Told(old, t, "other")  OBVIOUS
    <3>2. Become(r, x)  BY <2>3, <2>5, <3>1
    <3>3. x.topic = old.topic /\ x.told = "other"  BY <1>0, <1>1, <1>2, <3>1 DEF Replies
    <3>4. row.active => row.topic = sess[s].topic  BY <1>1, <2>2, <2>5 DEF Active
    <3>5. HeldStays  BY <1>1, <2>2, <2>3, <3>4, RowKeeps
    <3> QED  BY <1>1, <3>2, <3>3, <3>5, Answers
  <2> QED  BY <2>4, <2>5
<1> QED  BY <1>3, <1>4

LEMMA ChatMaps == ASSUME Inv, NEW r \in Reqs, Chat(r) PROVE RegistryStep
<1>1. PICK s \in Sids, ceiling \in BOOLEAN :
        LET new == [Fresh EXCEPT !.op = "chat", !.sid = s]
        IN  Become(r, IF Affordable /\ ~ceiling /\ Active(s) THEN [new EXCEPT !.at = "slot"]
                      ELSE Told(new, None, "other"))
    BY DEF Chat
<1>2. PICK new : new = [Fresh EXCEPT !.op = "chat", !.sid = s]  OBVIOUS
<1>3. new \in Request /\ new.topic = None /\ new.told = "nothing"
    BY <1>2, FreshRequest DEF Fresh, Request, Ops
<1>4. HeldStays /\ req[r].topic = None /\ req[r].told = "nothing"
    BY RowsStay, Starts DEF Chat
<1>5. CASE Affordable /\ ~ceiling /\ Active(s)
  <2>1. PICK x : x = [new EXCEPT !.at = "slot"]  OBVIOUS
  <2>2. Become(r, x)  BY <1>1, <1>2, <1>5, <2>1
  <2>3. x.topic = None /\ x.told = "nothing"  BY <1>3, <2>1 DEF Request
  <2> QED  BY <1>4, <2>2, <2>3, Quiet
<1>6. CASE ~(Affordable /\ ~ceiling /\ Active(s))
  <2>1. PICK x : x = Told(new, None, "other")  OBVIOUS
  <2>2. Become(r, x)  BY <1>1, <1>2, <1>6, <2>1
  <2>3. x.topic = None /\ x.told = "other"  BY <1>3, <2>1, ToldShows DEF Replies
  <2> QED  BY <1>4, <2>2, <2>3, Answers
<1> QED  BY <1>5, <1>6

(* The steps inside a request that write no row.                            *)
LEMMA InsideMaps ==
    ASSUME Inv, NEW r \in Reqs,
           \/ Summarise(r) \/ SummaryCall(r) \/ Seed(r) \/ Prepare(r) \/ Embed(r)
           \/ PrepareFails(r) \/ QueryFails(r)
    PROVE  RegistryStep
<1> DEFINE old == req[r]
<1>1. old \in Request /\ HeldStays
  <2>1. old \in Request  BY Before
  <2>2. UNCHANGED sess
      BY DEF Summarise, SummaryCall, Seed, Prepare, Embed, PrepareFails, QueryFails
  <2> QED  BY <2>1, <2>2, RowsStay
<1>2. \E x : Become(r, x) /\ x.topic = old.topic /\ x.told = old.told
  <2>1. \A where : LET x == [old EXCEPT !.at = where]
                   IN  x.topic = old.topic /\ x.told = old.told
      BY <1>1 DEF Request
  <2>2. CASE Summarise(r) \/ Prepare(r) \/ QueryFails(r)
    <3>1. PICK where : Become(r, [old EXCEPT !.at = where])
        BY <2>2 DEF Summarise, Prepare, QueryFails, Goto
    <3> QED  BY <2>1, <3>1
  <2>3. CASE SummaryCall(r)
    <3>1. PICK x : /\ Become(r, x)
                   /\ x = [old EXCEPT !.at = "write"] \/ x = [old EXCEPT !.at = "write", !.made = 1]
        BY <2>3 DEF SummaryCall, Goto
    <3> QED  BY <1>1, <3>1, ZenonT(40) DEF Request
  <2>4. CASE Seed(r)
    <3>1. PICK x : x = [old EXCEPT !.at = "insert", !.seed = sess[old.sid].summary]  OBVIOUS
    <3>2. Become(r, x)  BY <2>4, <3>1 DEF Seed
    <3>3. x.topic = old.topic /\ x.told = old.told  BY <1>1, <3>1 DEF Request
    <3> QED  BY <3>2, <3>3
  <2>5. CASE Embed(r)
    <3>1. PICK x : /\ Become(r, x)
                   /\ \/ x = [old EXCEPT !.at = "persist"]
                      \/ x = [old EXCEPT !.at = "persist", !.made = 1, !.pend = 1]
        BY <2>5 DEF Embed, Goto
    <3> QED  BY <1>1, <3>1, ZenonT(40) DEF Request
  <2>6. CASE PrepareFails(r)
    <3>1. PICK x : x = [old EXCEPT !.at = "salvage", !.pend = 0]  OBVIOUS
    <3>2. Become(r, x)  BY <2>6, <3>1 DEF PrepareFails
    <3>3. x.topic = old.topic /\ x.told = old.told  BY <1>1, <3>1 DEF Request
    <3> QED  BY <3>2, <3>3
  <2> QED  BY <2>2, <2>3, <2>4, <2>5, <2>6
<1> QED  BY <1>1, <1>2, Quiet

LEMMA TakeSlotMaps == ASSUME Inv, NEW r \in Reqs, TakeSlot(r) PROVE RegistryStep
<1> DEFINE old == req[r]
<1>1. /\ old \in Request /\ old.told = "nothing" /\ HeldStays
      /\ old.op = "chat" => old.topic = None
    BY Works, RowsStay DEF TakeSlot
<1>2. CASE old.op = "chat" /\ ~SlotLeft
  <2>1. PICK x : x = Told(old, None, "other")  OBVIOUS
  <2>2. Become(r, x)  BY <1>2, <2>1 DEF TakeSlot
  <2>3. x.topic = None /\ x.told = "other"  BY <1>1, <2>1, ToldShows DEF Replies
  <2> QED  BY <1>1, <1>2, <2>2, <2>3, Answers
<1>3. CASE old.op = "chat" /\ SlotLeft
  <2>1. PICK x : x = [old EXCEPT !.at = "prepare", !.slot = TRUE]  OBVIOUS
  <2>2. Become(r, x)  BY <1>3, <2>1 DEF TakeSlot
  <2>3. x.topic = old.topic /\ x.told = old.told  BY <1>1, <2>1 DEF Request
  <2> QED  BY <1>1, <2>2, <2>3, Quiet
<1>4. CASE old.op # "chat"
  <2>1. PICK x : x = [old EXCEPT !.at = "summarise", !.slot = SlotLeft]  OBVIOUS
  <2>2. Become(r, x)  BY <1>4, <2>1 DEF TakeSlot
  <2>3. x.topic = old.topic /\ x.told = old.told  BY <1>1, <2>1 DEF Request
  <2> QED  BY <1>1, <2>2, <2>3, Quiet
<1> QED  BY <1>2, <1>3, <1>4

LEMMA WriteSummaryMaps == ASSUME Inv, NEW r \in Reqs, WriteSummary(r) PROVE RegistryStep
<1> DEFINE old == req[r]
<1>0. PICK s : s = old.sid  OBVIOUS
<1>1. /\ old \in Request /\ old.told = "nothing" /\ old.op \in {"create", "end"}
      /\ old.op = "end" => old.topic = None
      /\ s \in Sids /\ Exists(s) /\ sess[s] \in Row
  <2>1. At(r) = "write"  BY DEF WriteSummary
  <2>2. old.op \in {"create", "end"} /\ s \in Sids /\ Exists(s)
      BY <1>0, <2>1, AtWork DEF At, Fits, OpFits, OnRow
  <2> QED  BY <2>1, <2>2, Works, Before
<1>2. HeldStays
  <2>1. <<s, old.ends>> \in Summaries  BY <1>1 DEF Summaries, Request
  <2>2. PICK row : row = [sess[s] EXCEPT !.summary = <<s, old.ends>>]  OBVIOUS
  <2>3. row \in Row /\ row.active = sess[s].active /\ row.topic = sess[s].topic
      BY <1>1, <2>1, <2>2 DEF Row
  <2>4. sess' = [sess EXCEPT ![s] = row]
      BY <1>0, <1>1, <2>2 DEF WriteSummary, Inv, TypeOK, Row
  <2> QED  BY <1>1, <2>3, <2>4, RowKeeps
<1>3. PICK paid : paid = [old EXCEPT !.booked = old.made]  OBVIOUS
<1>4. paid \in Request /\ paid.topic = old.topic /\ paid.told = old.told
  <2>1. old.made \in 0 .. 1  BY <1>1 DEF Request
  <2> QED  BY <1>1, <1>3, <2>1 DEF Request
<1>5. CASE old.op = "end"
  <2>1. PICK x : x = Told(paid, None, "other")  OBVIOUS
  <2>2. Become(r, x)  BY <1>3, <1>5, <2>1 DEF WriteSummary
  <2>3. x.topic = None /\ x.told = "other"  BY <1>4, <2>1, ToldShows DEF Replies
  <2> QED  BY <1>1, <1>2, <1>5, <2>2, <2>3, Answers
<1>6. CASE old.op # "end"
  <2>1. PICK x : x = [paid EXCEPT !.at = "seed"]  OBVIOUS
  <2>2. Become(r, x)  BY <1>3, <1>6, <2>1 DEF WriteSummary
  <2>3. x.topic = old.topic /\ x.told = old.told  BY <1>4, <2>1 DEF Request
  <2> QED  BY <1>2, <2>2, <2>3, Quiet
<1> QED  BY <1>5, <1>6

LEMMA StoreMaps ==
    ASSUME Inv, NEW r \in Reqs, At(r) \in {"persist", "salvage"},
           NEW cost, Store(r, cost)
    PROVE  RegistryStep
<1> DEFINE old == req[r]
<1>0. PICK s : s = old.sid  OBVIOUS
<1>1. /\ old \in Request /\ old.told = "nothing" /\ old.topic = None
      /\ s \in Sids /\ Exists(s) /\ sess[s] \in Row
    BY <1>0, InTurnIs, Before DEF InTurn, Turning
<1>2. HeldStays
  <2>1. PICK row : row = [sess[s] EXCEPT !.talked = TRUE]  OBVIOUS
  <2>2. row \in Row /\ row.active = sess[s].active /\ row.topic = sess[s].topic
      BY <1>1, <2>1 DEF Row
  <2>3. sess' = [sess EXCEPT ![s] = row]
      BY <1>0, <1>1, <2>1 DEF Store, Inv, TypeOK, Row
  <2> QED  BY <1>1, <2>2, <2>3, RowKeeps
<1>3. PICK y : y = Told(old, None, "other")  OBVIOUS
<1>4. y \in Request /\ y.topic = None /\ y.told = "other"
    BY <1>1, <1>3, ToldIs DEF Replies
<1>5. PICK x : x = [y EXCEPT !.booked = cost, !.kept = TRUE]  OBVIOUS
<1>6. Become(r, x)  BY <1>3, <1>5 DEF Store
<1>7. x.topic = None /\ x.told = "other"  BY <1>4, <1>5 DEF Request
<1> QED  BY <1>1, <1>2, <1>6, <1>7, Answers

LEMMA GetMeMaps == ASSUME Inv, NEW r \in Reqs, GetMe(r) PROVE RegistryStep
<1>1. req[r].topic = None /\ req[r].told = "nothing" /\ HeldStays
    BY Starts, RowsStay DEF GetMe
<1>2. PICK x : x = Told(Fresh, None, "other")  OBVIOUS
<1>3. Become(r, x)  BY <1>2 DEF GetMe
<1>4. x.topic = None /\ x.told = "other"  BY <1>2, FreshRequest, ToldShows DEF Replies
<1> QED  BY <1>1, <1>3, <1>4, Answers

LEMMA CutOffMaps ==
    ASSUME Inv, NEW r \in Reqs, Crash(r) \/ AbortedCommit(r)
    PROVE  RegistryStep
<1>1. req[r] \in Request /\ HeldStays  BY Before, RowsStay DEF Crash, AbortedCommit
<1>2. PICK where \in {"dead", "lost"} : Become(r, Over(req[r], where))
    BY DEF Crash, AbortedCommit
<1>3. PICK x : x = Over(req[r], where)  OBVIOUS
<1>4. Become(r, x)  BY <1>2, <1>3
<1>5. x.topic = req[r].topic /\ x.told = req[r].told  BY <1>1, <1>3, OverIs
<1> QED  BY <1>1, <1>4, <1>5, Quiet

-----------------------------------------------------------------------------
LEMMA RegistryInit == Init => Registry!Init
<1> SUFFICES ASSUME Init PROVE Registry!Init
    OBVIOUS
<1>1. Inv  BY InitInv
<1>2. \A s \in Sids : HeldBy(s) \in Topics \cup {None}
  <2>1. \A s \in Sids : Exists(s) => sess[s] \in Row  BY <1>1 DEF Inv, TypeOK, Exists
  <2> QED  BY <2>1 DEF HeldBy, Active, Row
<1>3. \A s \in Sids : HeldBy(s) # None => \A z \in Sids \ {s} : HeldBy(z) # HeldBy(s)
  <2> SUFFICES ASSUME NEW s \in Sids, HeldBy(s) # None, NEW z \in Sids \ {s},
                      HeldBy(z) = HeldBy(s)
               PROVE  FALSE
      OBVIOUS
  <2>1. Active(s) /\ Active(z) /\ sess[z].topic = sess[s].topic  BY DEF HeldBy
  <2>2. ActiveOn(sess[s].topic, s) = {}  BY <2>1 DEF Init
  <2> QED  BY <2>1, <2>2 DEF ActiveOn
<1>4. req = [r \in Reqs |-> Fresh] /\ Fresh.topic = None /\ Fresh.told = "nothing"
    BY DEF Init, Fresh
<1>5. Registry!Unique  BY <1>3 DEF Registry!Unique, Registry!Free, HeldBy
<1>6. RegistryHeld \in [Sids -> Topics \cup {None}]  BY <1>2 DEF RegistryHeld
<1>7. RegistryAsked = [r \in Reqs |-> None] /\ RegistryTold = [r \in Reqs |-> "nothing"]
    BY <1>4 DEF RegistryAsked, RegistryTold
<1> QED  BY <1>5, <1>6, <1>7 DEF Registry!Init, RegistryHeld, RegistryAsked, RegistryTold, HeldBy

LEMMA RegistryNext == Inv /\ [Next]_vars => RegistryStep
<1> SUFFICES ASSUME Inv, [Next]_vars PROVE RegistryStep
    OBVIOUS
<1>1. CASE UNCHANGED vars
  <2>1. RegistryAsked' = RegistryAsked /\ RegistryTold' = RegistryTold /\ HeldStays
      BY <1>1, RowsStay DEF vars, RegistryAsked, RegistryTold
  <2> QED  BY <2>1, HeldSame DEF RegistryStep
<1>2. ASSUME NEW r \in Reqs, Arrive(r) PROVE RegistryStep
    BY <1>2, CreateMaps, EndMaps, ReopenMaps, UpdateMaps, ChatMaps, GetMeMaps DEF Arrive
<1>3. ASSUME NEW r \in Reqs, Step(r) PROVE RegistryStep
  <2>1. CASE Persist(r) \/ Salvage(r)
      BY <2>1, StoreMaps DEF Persist, Salvage
  <2> QED
      BY <1>3, <2>1, ClaimPriorMaps, TakeSlotMaps, InsideMaps, WriteSummaryMaps, InsertMaps,
         ReopenCommitMaps, UpdateCommitMaps, CutOffMaps
      DEF Step
<1>4. ASSUME NEW r \in Reqs, Crash(r) PROVE RegistryStep
    BY <1>4, CutOffMaps
<1> QED  BY <1>1, <1>2, <1>3, <1>4 DEF Next

(* What the routes do with topics is what the registry promises: a topic    *)
(* has one active session, and a 409 duplicate_topic is never a lie.        *)
THEOREM RoutesImplementRegistry == Spec => ImplementsRegistry
<1>1. RegistryStep = [Registry!Next]_(Registry!vars)
    BY DEF RegistryStep, Registry!vars, RegistryHeld, RegistryAsked, RegistryTold, HeldBy
<1>2. Inv /\ [Next]_vars => [Registry!Next]_(Registry!vars)
    BY <1>1, RegistryNext
<1> QED  BY <1>2, RegistryInit, InvAlways, PTL DEF Spec, ImplementsRegistry, Registry!Spec
=============================================================================
