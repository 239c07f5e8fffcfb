--------------------------- MODULE ProofRequests ---------------------------
(***************************************************************************)
(* Requests for proof (src/server/services/proofs.ts and emailIntake.ts):  *)
(* somebody is asked for a document and uploads it through a secure link   *)
(* or by mail to the link's address, without an account; staff decide; the *)
(* daily run marks what is overdue.  Sending, uploading and sweeping write *)
(* the status without a guard.                                             *)
(***************************************************************************)
EXTENDS RiskFlags, SecureLinks

CONSTANTS
    Proofs,    \* ids a ProofRequest may get
    RequestOf  \* the proof request a link is for

ASSUME ProofAssumption ==
    /\ Proofs \subseteq Subjects
    /\ RequestOf \in [Links -> Proofs]
    /\ Links = Held

VARIABLES
    proof,    \* ProofRequest: its status
    uploads   \* evidence PROOF_UPLOADED: rows written through each link

proofs == <<link, proof, uploads>>

\* The schema's WAITING_PROOF, REJECTED and CLOSED are never written.
ProofStatuses == {"absent", "OPEN", "SENT", "SUBMITTED", "APPROVED", "OVERDUE"}

ProofTypeOK ==
    /\ LinkTypeOK
    /\ proof \in [Proofs -> ProofStatuses]
    /\ uploads \in [Links -> Nat]

ProofInit ==
    /\ LinkInit
    /\ proof = [r \in Proofs |-> "absent"]
    /\ uploads = [l \in Links |-> 0]

-----------------------------------------------------------------------------
(* createProofRequest and sendProofRequest *)

CreateProof(r) ==
    /\ proof[r] = "absent"
    /\ proof' = [proof EXCEPT ![r] = "OPEN"]
    /\ UNCHANGED <<flag, pc, req, disturbed, deaths, link, uploads>>

\* The request is read, whatever its status.
AskSend(p, r) ==
    /\ proof[r] # "absent"
    /\ Take(p, "idle", "mint", [NoRequest EXCEPT !.subject = r])
    /\ UNCHANGED <<flag, proofs>>

MintProofLink(p) ==
    \E l \in Links :
        /\ RequestOf[l] = req[p].subject
        /\ Mint(l)
        /\ Goto(p, "mint", "sent")
        /\ UNCHANGED <<flag, req, disturbed, deaths, proof, uploads>>

WriteSent(p) ==
    /\ Leave(p, "sent")
    /\ proof' = [proof EXCEPT ![req[p].subject] = "SENT"]
    /\ UNCHANGED <<flag, disturbed, deaths, link, uploads>>

-----------------------------------------------------------------------------
(* submitProofViaLink, behind the upload page and the mail intake *)

\* validateLinkToken
PresentProof(p, l) ==
    /\ Usable(l)
    /\ Take(p, "idle", "use", [NoRequest EXCEPT !.subject = RequestOf[l], !.link = l])
    /\ UNCHANGED <<flag, proofs>>

UseLink(p) ==
    /\ Goto(p, "use", "upload")
    /\ Consume(req[p].link)
    /\ UNCHANGED <<flag, req, disturbed, deaths, proof, uploads>>

LinkRefused(p) ==
    /\ Leave(p, "use")
    /\ ~CanConsume(req[p].link)
    /\ UNCHANGED <<flag, disturbed, deaths, proofs>>

\* The documents and the evidence of the upload.
RecordUpload(p) ==
    /\ Goto(p, "upload", "submit")
    /\ uploads' = [uploads EXCEPT ![req[p].link] = @ + 1]
    /\ UNCHANGED <<flag, req, disturbed, deaths, link, proof>>

\* Whatever the status has become.
Submit(p) ==
    /\ Goto(p, "submit", "clear")
    /\ proof' = [proof EXCEPT ![req[p].subject] = "SUBMITTED"]
    /\ UNCHANGED <<flag, req, disturbed, deaths, link, uploads>>

\* revokeSecureLink by hand, and the end of a link's lifetime.
ProofLinkEnds(l) ==
    /\ link[l].minted /\ ~link[l].ended
    /\ End({l})
    /\ UNCHANGED <<flag, pc, req, disturbed, deaths, proof, uploads>>

-----------------------------------------------------------------------------
(* decideProofRequest *)

Decidable(r) == proof[r] \in {"SUBMITTED", "OVERDUE"}

AskDecide(p, r, decision) ==
    /\ Decidable(r)
    /\ Take(p, "idle", "decide", [NoRequest EXCEPT !.subject = r, !.to = decision])
    /\ UNCHANGED <<flag, proofs>>

\* A rejection opens the request again; no decision clears the flag.
WriteDecision(p) ==
    /\ Leave(p, "decide")
    /\ proof' = [proof EXCEPT ![req[p].subject] = IF req[p].to = "APPROVED" THEN "APPROVED"
                                                                              ELSE "OPEN"]
    /\ UNCHANGED <<flag, disturbed, deaths, link, uploads>>

-----------------------------------------------------------------------------
(* The daily run: sweepOverdueProofRequests *)

Unanswered(r) == proof[r] \in {"OPEN", "SENT"}

MarkOverdue(j) ==
    \E r \in req[j].rest :
        /\ Goto(j, "overdue", "raise")
        /\ proof' = [proof EXCEPT ![r] = "OVERDUE"]
        /\ req' = [req EXCEPT ![j].subject = r, ![j].rest = @ \ {r}]
        /\ UNCHANGED <<flag, disturbed, deaths, link, uploads>>
=============================================================================
