----------------------------- MODULE SessionList -----------------------------
(***************************************************************************)
(* What AuthService promises of the sessions of one user: a sign-in issues *)
(* a session, newer than every other, and keeps only the most recent ones  *)
(* beside it ("Keep only the most recent active sessions for this user;    *)
(* revoke the rest"); a refresh does so in place of the session it was     *)
(* asked with; a logout ends one session and a password reset ends all of  *)
(* them ("all sessions are invalidated").                                  *)
(***************************************************************************)
EXTENDS Naturals, FiniteSets

CONSTANTS MaxActive, MaxSessions

VARIABLES
  issued,  \* the sessions ever issued, numbered in the order of their creation
  active   \* the sessions that are active

listVars == <<issued, active>>

Init == issued = {} /\ active = {}

\* keep is a set of most recent sessions of S: none that is dropped is newer
MostRecent(keep, S) == \A k \in keep, d \in S \ keep : k > d

\* a new session, beside which only most recent ones are kept, and none of gone
Issue(gone) ==
  \E s \in 1..MaxSessions, keep \in SUBSET (active \ gone) :
    /\ \A i \in issued : s > i
    /\ MostRecent(keep, active \ gone) /\ Cardinality(keep) < MaxActive
    /\ issued' = issued \cup {s}
    /\ active' = keep \cup {s}

SignIn == Issue({})

\* the session of the token is replaced, whether it is still active or not
Refresh == \E old \in issued : Issue({old})

Logout == \E s \in active : active' = active \ {s} /\ UNCHANGED issued

Reset == active' = {} /\ UNCHANGED issued

Next == SignIn \/ Logout \/ Reset
Spec == Init /\ [][Next]_listVars

\* the same with refreshes
RotatingSpec == Init /\ [][Next \/ Refresh]_listVars
=============================================================================
