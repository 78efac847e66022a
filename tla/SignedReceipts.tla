--------------------------- MODULE SignedReceipts ---------------------------
(***************************************************************************)
(* The signature on a release receipt (src/lib/gate/crypto.server.ts), the *)
(* rotation of the key that makes it, and the two programs that check it:  *)
(* the page /verify, with the key its deployment is configured with, and   *)
(* the command line, with a public key its user has pinned.                *)
(*                                                                         *)
(* Hashing and signing are ideal: the hash of a payload is the payload,    *)
(* and a signature is the pair of the key and the payload it was made of.  *)
(***************************************************************************)
EXTENDS ReleaseGate

CONSTANTS OldKey, NewKey  \* the release authority's key pair before and after rotation

ASSUME KeyAssumption == OldKey # NewKey /\ None \notin { OldKey, NewKey }

Keys == { OldKey, NewKey }

VARIABLES
  key,      \* HODGEFORM_RECEIPT_*_KEY of the running deployment
  signedBy  \* release_receipts.public_key_fingerprint: candidate -> key, or None

keyVars == << key, signedBy >>

InitKeys ==
  /\ key = OldKey
  /\ signedBy = [ c \in Candidates |-> None ]

\* signReceipt, in the transaction that inserts the receipt.
Sign ==
  /\ signedBy' = [ c \in Candidates |->
                     IF receipt[c] = None /\ receipt'[c] # None THEN key ELSE signedBy[c] ]
  /\ UNCHANGED key

\* docs/KEY_ROTATION.md: the new pair is deployed, which restarts the server;
\* what it was doing has been aborted.
Rotate ==
  /\ key = OldKey
  /\ \A r \in Requests : req[r] = Idle
  /\ key' = NewKey
  /\ UNCHANGED signedBy

-----------------------------------------------------------------------------
(* Documents.                                                              *)

Payload(c) == [ cand |-> c, verdict |-> receipt[c].verdict, evidence |-> receipt[c].evidence ]

\* exportReceiptDocument.
Exported(c) ==
  [ payload |-> Payload(c), receiptHash |-> Payload(c),
    signature |-> [ by |-> signedBy[c], of |-> Payload(c) ], fingerprint |-> signedBy[c] ]

\* The documents that the API route, the receipts page and the inspector give out.
Issued == { Exported(c) : c \in { d \in Candidates : receipt[d] # None } }

\* Whatever can be put together from those, their verdicts edited.
Documents ==
  LET originals  == { doc.payload : doc \in Issued }
      payloads   == originals \cup { [ p EXCEPT !.verdict = v ] :
                                       p \in originals, v \in { "RELEASE", "BLOCK" } }
      signatures == { doc.signature : doc \in Issued }
  IN  [ payload : payloads, receiptHash : payloads, signature : signatures, fingerprint : Keys ]

SignatureValid(doc, k) == doc.signature = [ by |-> k, of |-> doc.payload ]

\* Fault: a matching hash is taken for a signature.
HashValid(doc, k) == doc.fingerprint = k /\ doc.receiptHash = doc.payload
                       /\ doc.payload.verdict = "RELEASE"

\* What both checks come to under key k.
Verifies(doc, k) ==
  /\ doc.fingerprint = k
  /\ doc.receiptHash = doc.payload
  /\ SignatureValid(doc, k)
  /\ doc.payload.verdict = "RELEASE"

verifySignedReceiptDocument(doc) == Verifies(doc, key)

verifyReceipt(doc, pinned) == Verifies(doc, pinned)

-----------------------------------------------------------------------------

\* A document that passes either check is the unaltered receipt of a released
\* candidate, about all the evidence there is, signed by the key it was checked
\* with; and every receipt of a release passes, on the command line with the
\* key that signed it even after that key was replaced, and on the page for as
\* long as it was not (verify.tsx:38, docs/KEY_ROTATION.md).
VerifiedIsReleased ==
  /\ \A doc \in Documents, k \in Keys :
       verifyReceipt(doc, k) \/ (k = key /\ verifySignedReceiptDocument(doc)) =>
         LET c == doc.payload.cand IN
         /\ Released(c)
         /\ doc = Exported(c)
         /\ doc.payload.evidence = ledger[c]
         /\ signedBy[c] = k
  /\ \A c \in Candidates : Released(c) =>
       /\ verifyReceipt(Exported(c), signedBy[c])
       /\ verifySignedReceiptDocument(Exported(c)) <=> signedBy[c] = key
=============================================================================
