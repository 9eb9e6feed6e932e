-------------------------- MODULE ArchiveInvariant --------------------------
(***************************************************************************)
(* Why a callback gets whole messages: the inductive invariant behind      *)
(* DeliveredWhole of Archive, and the types of its variables.              *)
(***************************************************************************)
EXTENDS Archive

Publication ==
  [pc : {"running", "waiting", "committing", "closing", "closed", "gone"},
   claim : Nat, block : BOOLEAN, to_commit : Seq(Nat), blocks : Seq(Nat)]

ArchiveTypeOK ==
  /\ log \in Seq({"open", "ready"})
  /\ body \in Seq({"blank", "partial", "whole"})
  /\ Len(body) = Len(log)
  /\ next \in [Subscribers -> Nat]
  /\ reading \in [Subscribers -> Nat]
  /\ pub \in [Publishers -> Publication]
  /\ handler \in [Subscribers -> {"idle", "called"} \cup Codes]
  /\ joined \in [Subscribers -> Nat]

\* The claims that are a publication's to commit: an open claim has one owner.
Owned(p) ==
  Pending(p) \cup (IF pub[p].pc = "waiting" THEN {pub[p].claim} ELSE {})

OwnedInv ==
  /\ \A p \in Publishers : \A i \in Owned(p) :
       i \in DOMAIN log /\ log[i] = "open"
  /\ \A p, q \in Publishers : p # q => Owned(p) \cap Owned(q) = {}

\* A publication that enters one block at a time has the claim of that block
\* in to_commit and no other, and commits it when it has been written.
BlockInv ==
  \A p \in Publishers :
    /\ pub[p].pc = "waiting" =>
         pub[p].block /\ pub[p].to_commit = << >> /\ pub[p].blocks = << >>
    /\ pub[p].pc = "running" =>
         pub[p].to_commit = pub[p].blocks /\ Len(pub[p].blocks) <= 1
    /\ Committing(p) =>
         /\ pub[p].blocks = << >> /\ Len(pub[p].to_commit) <= 1
         /\ \A i \in Pending(p) : body[i] = "whole"
    /\ pub[p].pc # "gone"

\* What is ready is whole, and only that is read.
ReadyInv ==
  /\ \A i \in DOMAIN log : log[i] = "ready" => body[i] = "whole"
  /\ \A s \in Subscribers : reading[s] # 0 =>
       reading[s] \in DOMAIN log /\ log[reading[s]] = "ready"

\* With one block at a time in every publication, whatever the interleaving: an
\* open claim has one owner, which commits that claim alone and when it is
\* whole, so that nothing that is not whole is ready, or read.
BlocksInv == ArchiveTypeOK /\ OwnedInv /\ BlockInv /\ ReadyInv
=============================================================================
