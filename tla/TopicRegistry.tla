----------------------------- MODULE TopicRegistry -----------------------------
(***************************************************************************)
(* What the session routes promise about a user's topics: a topic is held  *)
(* by at most one active session, a request that gets a topic gets it at   *)
(* one instant, and a request told "duplicate_topic" was told the truth:   *)
(* at one instant of its run another session held the topic it asked for.  *)
(***************************************************************************)
CONSTANTS Sids, Topics, Reqs, None

VARIABLES
    held,   \* the topic each session holds while it is active, or None
    asked,  \* the topic each request asked for, or None
    told    \* "nothing" yet, "taken" (it has its topic), "duplicate", "other"

vars == <<held, asked, told>>

Free(t, s) == \A x \in Sids \ {s} : held[x] # t
Held(t)    == \E s \in Sids : held[s] = t

(* One active session per topic.                                            *)
Unique == \A s \in Sids : held[s] # None => Free(held[s], s)

Init ==
    /\ held \in [Sids -> Topics \cup {None}]
    /\ Unique
    /\ asked = [r \in Reqs |-> None]
    /\ told = [r \in Reqs |-> "nothing"]

Waiting(r, t) == told[r] = "nothing" /\ asked[r] \in {None, t}
Says(r, t, reply) == /\ asked' = [asked EXCEPT ![r] = t]
                     /\ told'  = [told EXCEPT ![r] = reply]

Ask(r, t) ==
    /\ Waiting(r, t)
    /\ Says(r, t, "nothing")
    /\ UNCHANGED held

(* A create, a reopen or a rename gets the topic for the session s.         *)
Take(r, s, t) ==
    /\ Waiting(r, t)
    /\ Free(t, s)
    /\ held' = [held EXCEPT ![s] = t]
    /\ Says(r, t, "taken")

Refuse(r, t) ==
    /\ Waiting(r, t)
    /\ Held(t)
    /\ Says(r, t, "duplicate")
    /\ UNCHANGED held

(* An end: the session gives its topic up; the answer may come much later.  *)
Leave(s) ==
    /\ held[s] # None
    /\ held' = [held EXCEPT ![s] = None]
    /\ UNCHANGED <<asked, told>>

Answer(r) ==
    /\ told[r] = "nothing"
    /\ told' = [told EXCEPT ![r] = "other"]
    /\ UNCHANGED <<held, asked>>

Next ==
    \/ \E r \in Reqs, t \in Topics : Ask(r, t) \/ Refuse(r, t) \/ \E s \in Sids : Take(r, s, t)
    \/ \E s \in Sids : Leave(s)
    \/ \E r \in Reqs : Answer(r)

Spec == Init /\ [][Next]_vars
=============================================================================
