---------------------------- MODULE SecureLinks ----------------------------
(***************************************************************************)
(* The SecureLink table of src/server/services/secureLinks.ts: links that  *)
(* let a party without an account act once, or a few times.  A link is     *)
(* looked at first (validateLinkToken) and its use is taken later          *)
(* (consumeLinkUse), by one UPDATE that looks again; between the two it    *)
(* may be revoked, may expire, or may be used up by somebody else.         *)
(***************************************************************************)
EXTENDS Naturals

CONSTANTS
    Links,    \* ids a link may get
    MaxUses   \* maxUses of each link

ASSUME LinkAssumption == MaxUses \in [Links -> Nat]

VARIABLE link   \* SecureLink: minted, useCount, revokedAt set or expiresAt passed

Link == [minted : BOOLEAN, uses : Nat, ended : BOOLEAN]

LinkTypeOK == link \in [Links -> Link]

LinkInit ==
    link = [l \in Links |-> [minted |-> FALSE, uses |-> 0, ended |-> FALSE]]

\* createSecureLink
Mint(l) ==
    /\ ~link[l].minted
    /\ link' = [link EXCEPT ![l].minted = TRUE]

\* What validateLinkToken asks of a link, and consumeLinkUse once more.
Usable(l) == link[l].minted /\ ~link[l].ended /\ link[l].uses < MaxUses[l]

\* A slip: an UPDATE that trusts the earlier look.
ValidatedBefore(l) == link[l].minted
CanConsume(l) == Usable(l)

\* consumeLinkUse: the row is updated, or no row matches.
Consume(l) ==
    /\ CanConsume(l)
    /\ link' = [link EXCEPT ![l].uses = @ + 1]

\* revokeSecureLink, the updateMany of a new request, or the time of expiry.
End(S) == link' = [l \in Links |-> IF l \in S /\ link[l].minted
                                   THEN [link[l] EXCEPT !.ended = TRUE] ELSE link[l]]

-----------------------------------------------------------------------------
\* A link is never used more often than it allows, whoever else holds its token
\* and however long ago each of them had it validated.
WithinCap == \A l \in Links : link[l].uses <= MaxUses[l]
=============================================================================
