--------------------------- MODULE SingleUseSeals ----------------------------
(***************************************************************************)
(* What every seal profile promises, without cells, nonces or receipts: a  *)
(* seal is opened by a deed of all its parties, and used at most once, by  *)
(* another deed of all of them about this seal, inside the window its      *)
(* opening deed gives.                                                     *)
(*                                                                         *)
(* Deeds speak of a subject, not of a seal: two seals opened on the same   *)
(* subject are both open to a deed about it, once each.                    *)
(***************************************************************************)
EXTENDS Naturals

CONSTANTS
  Keys,   \* the parties
  Deeds,  \* [opens, parties, subject, from, until, body]
  Ids,    \* names for seals
  Lag     \* by how much the window's end may be overrun

VARIABLES
  clock,
  mandates,  \* <<key, deed>>: the deeds a party agreed to
  seals      \* a function from the ids in use to [opening, use]

vars == <<clock, mandates, seals>>

Unused == [unused |-> TRUE]

AgreedByAll(parties, deed) == \A k \in parties : <<k, deed>> \in mandates

Init ==
  /\ clock = 0
  /\ mandates = {}
  /\ seals = [id \in {} |-> Unused]

Pass ==
  /\ clock' = clock + 1
  /\ UNCHANGED <<mandates, seals>>

Agree ==
  /\ UNCHANGED <<clock, seals>>
  /\ \E key \in Keys, deed \in Deeds : mandates' = mandates \cup {<<key, deed>>}

Open(id, deed) ==
  /\ id \notin DOMAIN seals
  /\ deed.opens
  /\ AgreedByAll(deed.parties, deed)
  /\ clock <= deed.until + Lag
  /\ seals' = [i \in DOMAIN seals \cup {id} |->
                 IF i = id THEN [opening |-> deed, use |-> Unused] ELSE seals[i]]
  /\ UNCHANGED <<clock, mandates>>

Use(id, deed) ==
  LET opening == seals[id].opening IN
  /\ seals[id].use = Unused
  /\ ~deed.opens
  /\ deed.subject = opening.subject
  /\ AgreedByAll(opening.parties, deed)
  /\ opening.from <= clock
  /\ clock <= opening.until + Lag
  /\ seals' = [seals EXCEPT ![id].use = deed]
  /\ UNCHANGED <<clock, mandates>>

Next ==
  \/ Pass
  \/ Agree
  \/ \E id \in Ids, deed \in Deeds : Open(id, deed)
  \/ \E id \in DOMAIN seals, deed \in Deeds : Use(id, deed)

Spec == Init /\ [][Next]_vars
==============================================================================
