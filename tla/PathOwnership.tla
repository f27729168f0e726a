---------------------------- MODULE PathOwnership ----------------------------
(***************************************************************************)
(* What the sockets of daemons that run one after another promise: a path  *)
(* is owned by one daemon at a time; a daemon serves once it owns all of   *)
(* its paths, and owns them for as long as it serves.                      *)
(***************************************************************************)
CONSTANTS Owners, Paths, NoOwner

VARIABLES owner,   \* who created what is at each path
          status   \* where each owner is in its life

ownershipVars == <<owner, status>>

Become(d, s) == status' = [status EXCEPT ![d] = s]

Init ==
    /\ owner = [p \in Paths |-> NoOwner]
    /\ status = [d \in Owners |-> "absent"]

\* One owner at a time.
Begin(d) ==
    /\ \A e \in Owners : status[e] \in {"absent", "gone"}
    /\ Become(d, "opening")
    /\ UNCHANGED owner

\* Frees a path that one who is gone left behind.
Clear(d, p) ==
    /\ status[d] = "opening"
    /\ owner[p] # NoOwner => status[owner[p]] = "gone"
    /\ owner' = [owner EXCEPT ![p] = NoOwner]
    /\ UNCHANGED status

Claim(d, p) ==
    /\ status[d] = "opening"
    /\ owner[p] = NoOwner
    /\ owner' = [owner EXCEPT ![p] = d]
    /\ UNCHANGED status

Serve(d) ==
    /\ status[d] = "opening"
    /\ \A p \in Paths : owner[p] = d
    /\ Become(d, "serving")
    /\ UNCHANGED owner

Leave(d) ==
    /\ status[d] \in {"opening", "serving"}
    /\ Become(d, "leaving")
    /\ UNCHANGED owner

Withdraw(d, p) ==
    /\ status[d] = "leaving"
    /\ owner[p] = d
    /\ owner' = [owner EXCEPT ![p] = NoOwner]
    /\ UNCHANGED status

\* What it still owned stays where it is.
End(d) ==
    /\ status[d] \in {"opening", "serving", "leaving"}
    /\ Become(d, "gone")
    /\ UNCHANGED owner

Next ==
    \E d \in Owners :
        \/ Begin(d) \/ Serve(d) \/ Leave(d) \/ End(d)
        \/ \E p \in Paths : Clear(d, p) \/ Claim(d, p) \/ Withdraw(d, p)

Spec == Init /\ [][Next]_ownershipVars
=============================================================================
