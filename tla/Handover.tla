------------------------------ MODULE Handover ------------------------------
(***************************************************************************)
(* The move-in record of a tenancy (moveIn.ts): its photos are documents   *)
(* of the vault, and landlord and tenant each acknowledge the condition.   *)
(* An acknowledgement reads the row, merges its side into what it read and *)
(* writes both sides back whole.  A tenancy has one record here; the code  *)
(* lets it have several, which then show each other's photos.              *)
(***************************************************************************)
EXTENDS Vault

CONSTANTS Handovers

VARIABLES
    movein,      \* per record: made, who has acknowledged, status
    photos,      \* documents uploaded as photos of a record: pairs
    acked,       \* MOVEIN_ACKNOWLEDGED evidence: pairs of a record and a side
    completed,   \* how many MOVEIN_COMPLETED each record has on the timeline
    ack,         \* per request: the record, the side and the sides it has read
    met,         \* records on which two acknowledgements met
    broken       \* records on which an acknowledgement was cut off

handoverRows == <<movein, photos, acked, completed, met, broken>>
handoverVars == <<vaultVars, handoverRows, ack>>

Sides == {"LANDLORD", "TENANT"}
NoAck == [of |-> {}, side |-> {}, had |-> {}]
AckSteps == {"write", "ack", "complete"}

HandoverInit ==
    /\ VaultInit
    /\ movein = [h \in Handovers |-> [made |-> FALSE, acks |-> {}, status |-> "PENDING"]]
    /\ photos = {} /\ acked = {} /\ completed = [h \in Handovers |-> 0]
    /\ ack = [p \in Clerks |-> NoAck] /\ met = {} /\ broken = {}

CreateMoveIn(h) ==
    /\ ~movein[h].made /\ movein' = [movein EXCEPT ![h].made = TRUE]
    /\ UNCHANGED <<vaultVars, photos, acked, completed, ack, met, broken>>

\* The upload of a photo is that of any document of the tenancy.
AddMoveInPhoto(p, h, d) ==
    /\ movein[h].made /\ Upload(p, d) /\ photos' = photos \cup {<<h, d>>}
    /\ UNCHANGED <<movein, acked, completed, ack, met, broken>>

\* The portal's page: the photos that are not archived, each with its URL.
MoveInPage(p, h) ==
    /\ movein[h].made /\ OpenPage(p, {d \in Docs : <<h, d>> \in photos})
    /\ UNCHANGED <<handoverRows, ack>>

-----------------------------------------------------------------------------
(* acknowledgeMoveIn *)

Reading(h) == {q \in Clerks : step[q] \in AckSteps /\ h \in ack[q].of}

\* A persona acknowledges its own side, an operator names one.
ReadMoveIn(p, h, s) ==
    /\ movein[h].made /\ s \notin movein[h].acks
    /\ Take(p, "write", Empty)
    /\ ack' = [ack EXCEPT ![p] = [of |-> {h}, side |-> {s}, had |-> movein[h].acks]]
    /\ met' = IF Reading(h) = {} THEN met ELSE met \cup {h}
    /\ UNCHANGED <<vaultRows, served, cut, movein, photos, acked, completed, broken>>

Merged(p) == ack[p].had \cup ack[p].side
StatusOf(sides) == IF sides = Sides THEN "COMPLETED" ELSE "PARTIALLY_ACKNOWLEDGED"
DoneOnOne(p) == ack[p].had # {} \/ ack[p].side = {"TENANT"}
Done(p) == Merged(p) = Sides

WriteAck(p, h) ==
    /\ h \in ack[p].of /\ Onward(p, "write", "ack", hand[p])
    /\ movein' = [movein EXCEPT ![h].acks = Merged(p), ![h].status = StatusOf(Merged(p))]
    /\ UNCHANGED <<vaultRows, served, cut, photos, acked, completed, ack, met, broken>>

TellAck(p, h) ==
    /\ h \in ack[p].of
    /\ acked' = acked \cup {<<h, s>> : s \in ack[p].side}
    /\ IF Done(p) THEN Onward(p, "ack", "complete", hand[p]) /\ UNCHANGED ack
       ELSE Finish(p, "ack") /\ ack' = [ack EXCEPT ![p] = NoAck]
    /\ UNCHANGED <<vaultRows, served, cut, movein, photos, completed, met, broken>>

TellComplete(p, h) ==
    /\ h \in ack[p].of /\ Finish(p, "complete") /\ ack' = [ack EXCEPT ![p] = NoAck]
    /\ completed' = [completed EXCEPT ![h] = @ + 1]
    /\ UNCHANGED <<vaultRows, served, cut, movein, photos, acked, met, broken>>

DieAcknowledging(p) ==
    /\ step[p] \in AckSteps /\ Finish(p, step[p])
    /\ broken' = broken \cup ack[p].of /\ ack' = [ack EXCEPT ![p] = NoAck]
    /\ UNCHANGED <<vaultRows, served, cut, movein, photos, acked, completed, met>>

-----------------------------------------------------------------------------
HandoverNext ==
    \/ \E h \in Handovers :
        \/ CreateMoveIn(h)
        \/ \E p \in Clerks :
            \/ \E d \in Docs : AddMoveInPhoto(p, h, d)
            \/ \E s \in Sides : ReadMoveIn(p, h, s)
            \/ MoveInPage(p, h) \/ WriteAck(p, h) \/ TellAck(p, h) \/ TellComplete(p, h)
    \/ \E p \in Clerks :
        \/ DieAcknowledging(p)
        \/ /\ UNCHANGED <<handoverRows, ack>>
           /\ \/ FileStep(p)
              \/ step[p] \notin AckSteps /\ DieFiling(p)
              \/ \E d \in Docs : GetToArchive(p, d)

HandoverSpec == HandoverInit /\ [][HandoverNext]_handoverVars

-----------------------------------------------------------------------------
(* Properties *)

\* An acknowledgement is on the row and on the timeline, and the handover is told
\* complete exactly once and when both sides are there, unless two acknowledgements
\* met: the later one then writes back a row without the earlier (moveIn.ts:111-159).
HandoverTold ==
    \A h \in Handovers \ (met \cup broken) :
        Reading(h) = {} =>
            /\ \A s \in Sides : <<h, s>> \in acked <=> s \in movein[h].acks
            /\ completed[h] = IF movein[h].acks = Sides THEN 1 ELSE 0
            /\ movein[h].status = "COMPLETED" <=> movein[h].acks = Sides

=============================================================================
