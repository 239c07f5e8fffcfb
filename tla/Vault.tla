------------------------------- MODULE Vault -------------------------------
(***************************************************************************)
(* The document vault (documents.ts, storage/index.ts, api/v1/files): the  *)
(* bytes go to storage, a row and two insert-only rows follow, each in a   *)
(* statement of its own.  Bytes come out only through a signed URL that a  *)
(* page handed out, and an archived document gives nothing any more.       *)
(* Who may read which document is the matter of Scopes.                    *)
(***************************************************************************)
EXTENDS Naturals, FiniteSets

CONSTANTS
    Docs,       \* ids of documents that can be uploaded: bounds the uploads
    Clerks      \* concurrent requests

VARIABLES
    doc,        \* per document: absent, bytes (stored, no row yet), kept or archived
    spoiled,    \* documents whose stored bytes no longer match their hash
    log,        \* DocumentAccessLog: pairs of a document and an action
    told,       \* documents with their DOCUMENT_UPLOADED evidence
    signed,     \* documents of which somebody holds a signed URL that has not expired
    step,       \* per request: the step it is at
    hand,       \* per request: what it works on and has read
    served,     \* answers with bytes: whether asked for too late, unlogged or spoiled
    cut         \* documents in whose hands a request died

vaultVars == <<doc, spoiled, log, told, signed, step, hand, served, cut>>
vaultRows == <<doc, spoiled, log, told, signed>>

\* doc: the one in hand; todo: of a page; lost: the page has thrown; late: the row
\* was archived when the URL was opened; entered: its download is in the log.
Empty == [doc |-> {}, todo |-> {}, done |-> {}, lost |-> FALSE, late |-> FALSE,
          entered |-> FALSE, sound |-> FALSE]

VaultInit ==
    /\ doc = [d \in Docs |-> "absent"] /\ spoiled = {} /\ log = {} /\ told = {} /\ signed = {}
    /\ step = [p \in Clerks |-> "idle"] /\ hand = [p \in Clerks |-> Empty]
    /\ served = {} /\ cut = {}

Take(p, to, h) ==
    /\ step[p] = "idle" /\ step' = [step EXCEPT ![p] = to]
    /\ hand' = [hand EXCEPT ![p] = h]
Onward(p, from, to, h) ==
    /\ step[p] = from /\ step' = [step EXCEPT ![p] = to]
    /\ hand' = [hand EXCEPT ![p] = h]
Finish(p, from) == Onward(p, from, "idle", Empty)
InHand(p, d) == d \in hand[p].doc

-----------------------------------------------------------------------------
(* Upload: by staff, by a tenant, as a photo of a handover, for a passport *)

\* ingestDocument puts the bytes first ...
Upload(p, d) ==
    /\ doc[d] = "absent" /\ doc' = [doc EXCEPT ![d] = "bytes"]
    /\ Take(p, "row", [Empty EXCEPT !.doc = {d}])
    /\ UNCHANGED <<spoiled, log, told, signed, served, cut>>

\* ... and then creates the row, with the hash it took before.
CreateRow(p, d) ==
    /\ InHand(p, d) /\ Onward(p, "row", "uploaded", hand[p])
    /\ doc' = [doc EXCEPT ![d] = "kept"]
    /\ UNCHANGED <<spoiled, log, told, signed, served, cut>>

LogUpload(p, d) ==
    /\ InHand(p, d) /\ Onward(p, "uploaded", "tell", hand[p])
    /\ log' = log \cup {<<d, "UPLOADED">>}
    /\ UNCHANGED <<doc, spoiled, told, signed, served, cut>>

TellUpload(p, d) ==
    /\ InHand(p, d) /\ Finish(p, "tell") /\ told' = told \cup {d}
    /\ UNCHANGED <<doc, spoiled, log, signed, served, cut>>

-----------------------------------------------------------------------------
(* Pages that hand out URLs *)

\* listDocuments, without the archived ones; then getDocumentUrl for each.
OpenPage(p, of) ==
    /\ Take(p, "page", [Empty EXCEPT !.todo = {d \in of : doc[d] = "kept"}])
    /\ UNCHANGED <<vaultRows, served, cut>>

ReadableAnyway(d) == doc[d] \in {"kept", "archived"}
Readable(d) == doc[d] = "kept"

\* getDocument under getDocumentUrl: an archived row throws, and with it the page,
\* while the other documents' URLs are still being made and logged.
GetForUrl(p, d) ==
    /\ d \in hand[p].todo
    /\ IF Readable(d)
       THEN Onward(p, "page", "viewed", [hand[p] EXCEPT !.todo = @ \ {d}, !.doc = {d}])
       ELSE Onward(p, "page", "page", [hand[p] EXCEPT !.todo = @ \ {d}, !.lost = TRUE])
    /\ UNCHANGED <<vaultRows, served, cut>>

LogView(p, d) ==
    /\ InHand(p, d)
    /\ Onward(p, "viewed", "page", [hand[p] EXCEPT !.doc = {}, !.done = @ \cup {d}])
    /\ log' = log \cup {<<d, "VIEWED">>}
    /\ UNCHANGED <<doc, spoiled, told, signed, served, cut>>

\* The page arrives with its URLs, or not at all.
Render(p) ==
    /\ hand[p].todo = {} /\ Finish(p, "page")
    /\ signed' = IF hand[p].lost THEN signed ELSE signed \cup hand[p].done
    /\ UNCHANGED <<doc, spoiled, log, told, served, cut>>

UrlExpires(d) ==
    /\ d \in signed /\ signed' = signed \ {d}
    /\ UNCHANGED <<doc, spoiled, log, told, step, hand, served, cut>>

-----------------------------------------------------------------------------
(* The download *)

\* verifyFileUrl: the signature is the authorization.
OpenUrl(p, d) ==
    /\ d \in signed
    /\ Take(p, "fetch", [Empty EXCEPT !.doc = {d}, !.late = (doc[d] = "archived")])
    /\ UNCHANGED <<vaultRows, served, cut>>

ReadRow(p, d) ==
    /\ InHand(p, d)
    /\ IF Readable(d) THEN Onward(p, "fetch", "bytes", hand[p]) ELSE Finish(p, "fetch")
    /\ UNCHANGED <<vaultRows, served, cut>>

\* The stored bytes, refused when their hash is not the row's.
GetBytes(p, d) ==
    /\ InHand(p, d)
    /\ IF d \in spoiled THEN Finish(p, "bytes")
       ELSE Onward(p, "bytes", "enter", [hand[p] EXCEPT !.sound = TRUE])
    /\ UNCHANGED <<vaultRows, served, cut>>

LogDownload(p, d) ==
    /\ InHand(p, d) /\ Onward(p, "enter", "send", [hand[p] EXCEPT !.entered = TRUE])
    /\ log' = log \cup {<<d, "DOWNLOADED">>}
    /\ UNCHANGED <<doc, spoiled, told, signed, served, cut>>

Serve(p, d) ==
    /\ InHand(p, d) /\ Finish(p, "send")
    /\ served' = served \cup {[late |-> hand[p].late, entered |-> hand[p].entered,
                               sound |-> hand[p].sound]}
    /\ UNCHANGED <<vaultRows, cut>>

-----------------------------------------------------------------------------
(* archiveDocument *)

GetToArchive(p, d) ==
    /\ Readable(d) /\ Take(p, "close", [Empty EXCEPT !.doc = {d}])
    /\ UNCHANGED <<vaultRows, served, cut>>

WriteArchived(p, d) ==
    /\ InHand(p, d) /\ Onward(p, "close", "closed", hand[p])
    /\ doc' = [doc EXCEPT ![d] = "archived"]
    /\ UNCHANGED <<spoiled, log, told, signed, served, cut>>

LogArchived(p, d) ==
    /\ InHand(p, d) /\ Finish(p, "closed") /\ log' = log \cup {<<d, "DELETED">>}
    /\ UNCHANGED <<doc, spoiled, told, signed, served, cut>>

-----------------------------------------------------------------------------
\* The storage loses or changes bytes: what the hash of each row is for.
Spoil(d) ==
    /\ doc[d] \in {"bytes", "kept"} /\ d \notin spoiled /\ spoiled' = spoiled \cup {d}
    /\ UNCHANGED <<doc, log, told, signed, step, hand, served, cut>>

DieFiling(p) ==
    /\ step[p] # "idle" /\ Finish(p, step[p])
    /\ cut' = cut \cup hand[p].doc
    /\ UNCHANGED <<vaultRows, served>>

FileStep(p) ==
    \/ \E d \in Docs :
        \/ CreateRow(p, d) \/ LogUpload(p, d) \/ TellUpload(p, d)
        \/ GetForUrl(p, d) \/ LogView(p, d)
        \/ ReadRow(p, d) \/ GetBytes(p, d) \/ LogDownload(p, d) \/ Serve(p, d)
        \/ WriteArchived(p, d) \/ LogArchived(p, d)
    \/ Render(p)

VaultNext ==
    \/ \E p \in Clerks :
        \/ \E d \in Docs : Upload(p, d) \/ OpenUrl(p, d) \/ GetToArchive(p, d)
        \/ OpenPage(p, Docs) \/ FileStep(p) \/ DieFiling(p)
    \/ \E d \in Docs : UrlExpires(d) \/ Spoil(d)

VaultSpec == VaultInit /\ [][VaultNext]_vaultVars

-----------------------------------------------------------------------------
(* Properties *)

\* In nobody's hands, and nobody died with it.
AtRest(d) == d \notin cut /\ \A p \in Clerks : ~InHand(p, d)

\* Archive ends access: bytes go out only to requests made before it, with their
\* hash verified and the download already in the log (documents.ts:180-193,
\* files/[id]/route.ts:14-28); and every touch is in the log, each upload on the
\* timeline too (documents.ts:11-13, 48-63).
VaultAccounts ==
    /\ \A s \in served : ~s.late /\ s.sound /\ s.entered
    /\ \A d \in signed : <<d, "VIEWED">> \in log
    /\ \A d \in Docs :
        /\ doc[d] \in {"kept", "archived"} /\ AtRest(d) => d \in told /\ <<d, "UPLOADED">> \in log
        /\ doc[d] = "archived" /\ AtRest(d) => <<d, "DELETED">> \in log

=============================================================================
