----------------------------- MODULE FairnessCheck -----------------------------
(***************************************************************************)
(* getRandomnessVerification: the verdict on the random words of a session *)
(* (randomness-verification.ts, verify-network-router.ts) from reads of    *)
(* the chain that may fail one by one.                                     *)
(*                                                                         *)
(* Hashes are injective: a request id is the request itself.  A proof is   *)
(* made with a key for an alpha and determines the word (its gamma); a     *)
(* malformed one proves nothing.  A signature is made with a key over an   *)
(* id and a proof, or recovers to no key.  A node's address is its key.    *)
(* Nothing is assumed of who fulfils a request: another node than the      *)
(* assigned one may, with a proof and a signature of its own key.          *)
(***************************************************************************)
EXTENDS Integers, Sequences, FiniteSets

CONSTANTS
    VrfNodes,       \* the nodes, by their key
    Asked,          \* the requests of the session, by their sequence
    Manners         \* how a request may be fulfilled

\* What the constants are assumed to be.
FairnessAssumption ==
    /\ Manners \subseteq {"in order", "word not recorded", "relayed", "other node",
                          "other signer", "no signature", "malformed proof",
                          "other word in the row", "other word in the log"}
    /\ {"other node", "other signer"} \cap Manners # {} =>
           \A n \in VrfNodes : \E m \in VrfNodes : m # n

NoVerdict == [kind |-> "none"]
Unverified == [kind |-> "could not verify"]

-----------------------------------------------------------------------------
(***************************************************************************)
(* The protocol, as verify-network-router.ts mirrors it                    *)
(***************************************************************************)

Request(sequence, node) == [sequence |-> sequence, fulfiller |-> node]
ComputeRequestId(request) == <<"id", request>>

Prove(key, alpha) == [key |-> key, alpha |-> alpha, form |-> "sound"]
VerifyEcvrf(key, proof, alpha) ==
    proof.form = "sound" /\ proof.key = key /\ proof.alpha = alpha
DeriveRandomness(proof) == <<"word", proof.key, proof.alpha>>

Digest(id, proof) == <<id, proof>>
Sign(key, id, proof) == [by |-> {key}, digest |-> Digest(id, proof)]
NoSignature == [by |-> {}, digest |-> <<>>]

\* recoverFulfillmentSigner: the key that signed this digest.  Over another
\* digest a signature recovers to some key no node has.
RecoverFulfillmentSigner(id, proof, signature) ==
    IF signature.digest = Digest(id, proof) THEN signature.by ELSE {}

-----------------------------------------------------------------------------
VARIABLES
    fulfilment,     \* the requests that were fulfilled, and how
    batched,        \* whether one transaction fulfilled them all
    hashKnown,      \* whether the row has the transaction of a request
    sessionKnown,   \* whether the session is in the feed
    enquiry,        \* how far the verification of the session is
    stage,          \* how far the verification of each request is
    verdict         \* what was found out about each

fairVars == <<fulfilment, batched, hashKnown, sessionKnown, enquiry, stage, verdict>>
scene == <<fulfilment, batched, hashKnown, sessionKnown>>

OtherNode(node) == CHOOSE n \in VrfNodes : n # node
IdOf(r) == ComputeRequestId(Request(r, fulfilment[r].node))

\* The fulfilment as the transaction carries it.  An impostor proves and signs
\* with its own key.
ProverOf(r) ==
    IF fulfilment[r].how = "other node" THEN OtherNode(fulfilment[r].node)
    ELSE fulfilment[r].node
ProofOf(r) == [Prove(ProverOf(r), IdOf(r)) EXCEPT
                  !.form = IF fulfilment[r].how = "malformed proof" THEN "malformed" ELSE @]
SignatureOf(r) ==
    CASE fulfilment[r].how = "other signer" ->
             Sign(OtherNode(fulfilment[r].node), IdOf(r), ProofOf(r))
      [] fulfilment[r].how = "no signature" -> NoSignature
      [] OTHER -> Sign(ProverOf(r), IdOf(r), ProofOf(r))
OtherWord == <<"word", "of nothing">>
LogOf(r) ==
    [address |-> "router", id |-> IdOf(r), proof |-> ProofOf(r),
     randomness |-> IF fulfilment[r].how = "other word in the log" THEN OtherWord
                    ELSE DeriveRandomness(ProofOf(r)),
     signature |-> SignatureOf(r)]
\* Another contract may emit the same event; its word means nothing.
StrayLog(r) == [LogOf(r) EXCEPT !.address = "other", !.randomness = OtherWord]

Fulfilled(r) == fulfilment[r].how # "pending"
Together(r) == {q \in Asked : Fulfilled(q) /\ (q = r \/ batched)}
Logs(r) == {LogOf(q) : q \in Together(r)} \cup {StrayLog(q) : q \in Together(r)}

\* The transaction called another contract, which called the router: there are
\* the logs but no fulfilment to decode in the calldata.
Relayed(r) == \E q \in Together(r) : fulfilment[q].how = "relayed"
Echoes(r) ==
    IF Relayed(r) THEN {} ELSE {Request(q, fulfilment[q].node) : q \in Together(r)}

\* What the row of the session says of the request.
NoRecord == <<>>
RecordedWord(r) ==
    CASE fulfilment[r].how = "other word in the row" -> OtherWord
      [] fulfilment[r].how = "word not recorded" -> NoRecord
      [] OTHER -> LogOf(r).randomness

-----------------------------------------------------------------------------
FairInit ==
    /\ fulfilment \in [Asked -> [node : VrfNodes, how : Manners \cup {"pending"}]]
    /\ batched \in BOOLEAN
    /\ hashKnown \in BOOLEAN
    /\ sessionKnown \in BOOLEAN
    /\ enquiry = "asked"
    /\ stage = [r \in Asked |-> "idle"]
    /\ verdict = [r \in Asked |-> NoVerdict]

\* verifySessionRandomness, by what the host says of its router.  Where there is
\* none the answer is that verification is not supported, without any request.
SessionVerification(router) ==
    CASE router = "unreadable" -> "threw"
      [] router = "zero address" -> "unsupported"
      [] OTHER -> "verifying"

\* getRandomnessVerification of the host: an unknown session is an error and not
\* an empty answer.
AskSession(router) ==
    /\ enquiry = "asked"
    /\ enquiry' = IF sessionKnown THEN SessionVerification(router) ELSE "threw"
    /\ stage' = IF enquiry' = "verifying"
                THEN [r \in Asked |-> IF ~Fulfilled(r) THEN "done"
                                      ELSE IF hashKnown THEN "reading" ELSE "locating"]
                ELSE stage
    /\ UNCHANGED <<scene, verdict>>

GiveUp(r) ==
    /\ stage' = [stage EXCEPT ![r] = "done"]
    /\ verdict' = [verdict EXCEPT ![r] = Unverified]

\* findFulfillmentTransaction, by the router's log.
Locate(r, readable) ==
    /\ enquiry = "verifying"
    /\ stage[r] = "locating"
    /\ IF readable
       THEN stage' = [stage EXCEPT ![r] = "reading"] /\ UNCHANGED verdict
       ELSE GiveUp(r)
    /\ UNCHANGED <<scene, enquiry>>

\* Mutant: an echo is not hashed and compared with the id of the request.
FoundAnyEcho(r) == Echoes(r)

\* findFulfillmentLog and findEchoedRequest.
FoundLogs(r) == {log \in Logs(r) : log.address = "router" /\ log.id = IdOf(r)}
FoundEcho(r) == {echo \in Echoes(r) : ComputeRequestId(echo) = IdOf(r)}

\* The proof holds under the signing key for this request, the word is the
\* proof's and the row's if that has one, the signature recovers to a key, and
\* that is the node the request was assigned to.
Checks(r, log) ==
    LET signer == RecoverFulfillmentSigner(IdOf(r), log.proof, log.signature)
        proofValid == \E key \in signer : VerifyEcvrf(key, log.proof, IdOf(r))
    IN  [vrfProofValid |-> proofValid,
         vrfBetaMatchesRandomness |->
             /\ proofValid
             /\ DeriveRandomness(log.proof) = log.randomness
             /\ RecordedWord(r) \in {NoRecord, log.randomness},
         enclaveSignatureValid |-> signer # {},
         signerMatchesFulfiller |->
             \E key \in signer, echo \in FoundEcho(r) : key = echo.fulfiller]
CheckNames == {"vrfProofValid", "vrfBetaMatchesRandomness", "enclaveSignatureValid",
               "signerMatchesFulfiller"}

Judgement(r, log) ==
    [kind |-> IF \A check \in CheckNames : Checks(r, log)[check] THEN "valid" ELSE "invalid",
     word |-> IF RecordedWord(r) = NoRecord THEN log.randomness ELSE RecordedWord(r),
     checks |-> Checks(r, log)]

\* verifyRequest, once both reads of the transaction are there.
VerifyRequest(r, readable) ==
    /\ enquiry = "verifying"
    /\ stage[r] = "reading"
    /\ IF readable /\ FoundLogs(r) # {}
       THEN /\ stage' = [stage EXCEPT ![r] = "done"]
            /\ \E log \in FoundLogs(r) :
                   verdict' = [verdict EXCEPT ![r] = Judgement(r, log)]
       ELSE GiveUp(r)
    /\ UNCHANGED <<scene, enquiry>>

\* All requests are verified on their own; the answer waits for the last.
AnswerSession ==
    /\ enquiry = "verifying"
    /\ \A r \in Asked : stage[r] = "done"
    /\ enquiry' = "answered"
    /\ UNCHANGED <<scene, stage, verdict>>

\* The player asks again.
Retry ==
    /\ enquiry \in {"threw", "unsupported", "answered"}
    /\ enquiry' = "asked"
    /\ sessionKnown' = TRUE
    /\ stage' = [r \in Asked |-> "idle"]
    /\ verdict' = [r \in Asked |-> NoVerdict]
    /\ UNCHANGED <<fulfilment, batched, hashKnown>>

FairNext ==
    \/ \E router \in {"set", "zero address", "unreadable"} : AskSession(router)
    \/ \E r \in Asked, ok \in BOOLEAN : Locate(r, ok)
    \/ \E r \in Asked, ok \in BOOLEAN : VerifyRequest(r, ok)
    \/ AnswerSession
    \/ Retry

FairCheckSpec == FairInit /\ [][FairNext]_fairVars

-----------------------------------------------------------------------------
(***************************************************************************)
(* Properties                                                              *)
(***************************************************************************)

\* The assigned node proved and signed it for this very request, the router
\* logged the word of the proof, and the row has no other.
Genuine(r) ==
    /\ Fulfilled(r)
    /\ LogOf(r).proof = Prove(fulfilment[r].node, IdOf(r))
    /\ LogOf(r).signature = Sign(fulfilment[r].node, IdOf(r), LogOf(r).proof)
    /\ LogOf(r).randomness = DeriveRandomness(LogOf(r).proof)
    /\ RecordedWord(r) \in {NoRecord, LogOf(r).randomness}

\* A word is called valid when it is the one word the assigned node could give
\* for this very request, and the row does not have another; a transaction
\* that fulfils other requests, events of other contracts and a node that
\* answers in another's place do not blur it.
ValidIsEarned ==
    \A r \in Asked :
        verdict[r].kind = "valid" =>
            /\ verdict[r].word = DeriveRandomness(Prove(fulfilment[r].node, IdOf(r)))
            /\ Genuine(r)

\* A genuine word whose transaction called the router is never called invalid:
\* a read that fails leaves it unverified, to be retried, and never takes
\* another request with it.  One that was relayed by another contract is called
\* invalid, since the node it was assigned to cannot be told from the calldata,
\* and that is then the only check it fails.
GenuineIsNotAccused ==
    \A r \in Asked :
        Genuine(r) /\ verdict[r].kind = "invalid" =>
            /\ Relayed(r)
            /\ \A check \in CheckNames :
                   verdict[r].checks[check] <=> check # "signerMatchesFulfiller"

\* An answer never passes over a request that was fulfilled, unless it is that
\* there is no router to ask; then nothing is said of any.
NothingIsSkipped ==
    /\ enquiry = "answered" =>
          /\ sessionKnown
          /\ \A r \in Asked : Fulfilled(r) <=> verdict[r] # NoVerdict
    /\ enquiry = "unsupported" => \A r \in Asked : verdict[r] = NoVerdict

=============================================================================
