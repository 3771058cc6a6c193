------------------------------ MODULE MCJournal ------------------------------
(* Instances of AssetJournal for TLC: small sets, targets and file names. *)
EXTENDS AssetJournal, TLC

CONSTANTS e1, l1, u1, u2, u3, u4, h1, h2, server, one, two

ToNew == [u \in Uploads |-> NewRequest]
ToExisting == [u \in Uploads |-> e1]
ToBoth == [u \in Uploads |-> IF u = u2 THEN l1 ELSE e1]
SameName == [u \in Uploads |-> FirstName]
OtherName == [u \in Uploads |-> two]
SendAny == [h \in Handlers |-> Uploads]
\* Only one call at a time finalizes u3, and only one u4.
SendOwn == [h \in Handlers |-> Uploads \ {IF h = h1 THEN u4 ELSE u3}]
OneServer == [h \in Handlers |-> server]

Situation(uploads, calls, removable, crashes, faults, apart) ==
  [uploads |-> uploads, calls |-> calls, removable |-> removable,
   crashes |-> crashes, faults |-> faults, failing |-> faults > 0 \/ "remove_batch" \in calls, apart |-> apart]

\* New prints beside deletions and a crash, two new prints beside a crash, and the removal of the owner,
\* who may still be uploading.
Additions == {
  Situation({u1}, {"upload", "remove"}, {e1}, 1, 0, FALSE),
  Situation({u1, u2}, {"upload"}, {}, 1, 0, FALSE),
  Situation({u1}, {"upload", "remove_owned"}, {e1}, 0, 0, TRUE),
  Situation({u1}, {"upload", "remove_owned"}, {}, 1, 0, FALSE)}
OneReplacement == {Situation({u1}, {"upload"}, {}, 1, 0, FALSE)}
\* A replacement with two crashes, and a first model with one, across file systems; two replacements of
\* one model with a failing call; deletes with a crash and a failing call; deletes and moves with a crash;
\* batch deletions beside all that does not upload.
Changes == {
  Situation({u1}, {"upload", "repeat"}, {}, 2, 0, FALSE),
  Situation({u2}, {"upload", "repeat"}, {}, 1, 0, TRUE),
  Situation({u3, u4}, {"upload", "repeat"}, {}, 0, 1, TRUE),
  Situation({}, {"remove"}, {e1}, 1, 1, FALSE),
  Situation({}, {"remove", "repeat", "move"}, {e1}, 1, 0, FALSE),
  Situation({}, {"remove", "remove_batch", "repeat", "move", "move_batch"}, {e1, l1}, 0, 0, FALSE)}

\* Tracked, but for batch deletions: they are not journaled, and of two that overlap one restores
\* files of a print the other has deleted (deleteRequestPartsBulk).
TrackedUnbatched == "remove_batch" \in left.calls \/ Tracked

HandlerSymmetry == Permutations(Handlers)
=============================================================================
