--------------------------- MODULE CloudEmbedding ---------------------------
(***************************************************************************)
(* CloudEmbeddingProvider::embed                                           *)
(* (src/crates/semantic_index/src/embedding/cloud.rs): one async call per  *)
(* batch of texts, a strict sequence of fallible steps, each `?` ending    *)
(* the call with Err.  The token service, the URL builder and the HTTP    *)
(* server are outside this repository; each is a nondeterministic choice   *)
(* over the outcomes the code distinguishes.  A response body is either    *)
(* unparsable or a CloudEmbeddingResponse with some number of embeddings;  *)
(* the vectors themselves are abstracted away.                             *)
(***************************************************************************)
EXTENDS Naturals

CONSTANTS
    Calls,      \* concurrent embed calls (the index embeds batches in parallel)
    BatchSize,  \* batch_size(): at most this many texts per call (100)
    MaxData     \* bound on the embeddings a response body can hold

\* What the HTTP client can hand back: a body that parses as
\* CloudEmbeddingResponse or not, and the length of its `data` array.
Bodies == [parses : BOOLEAN, data : 0..MaxData]

Steps == {"idle", "acquiring", "sending", "responded", "ok", "err"}

VARIABLES
    step,     \* step[c]: where call c is
    texts,    \* texts[c]: how many texts call c was given
    status,   \* status[c]: whether the response status was a success
    body,     \* body[c]: the response body
    returned  \* returned[c]: embeddings in the Ok result of c

vars == <<step, texts, status, body, returned>>

TypeOK ==
    /\ step \in [Calls -> Steps]
    /\ texts \in [Calls -> 0..BatchSize]
    /\ status \in [Calls -> BOOLEAN]
    /\ body \in [Calls -> Bodies]
    /\ returned \in [Calls -> 0..MaxData]

Init ==
    /\ step = [c \in Calls |-> "idle"]
    /\ texts = [c \in Calls |-> 0]
    /\ status = [c \in Calls |-> FALSE]
    /\ body = [c \in Calls |-> [parses |-> FALSE, data |-> 0]]
    /\ returned = [c \in Calls |-> 0]

\* embed(texts): the caller hands over a batch of at most batch_size()
\* texts, and the future is polled.
Embed(c) ==
    /\ step[c] = "idle"
    /\ \E n \in 1..BatchSize : texts' = [texts EXCEPT ![c] = n]
    /\ step' = [step EXCEPT ![c] = "acquiring"]
    /\ UNCHANGED <<status, body, returned>>

\* llm_api_token.acquire(&client).await? ("Failed to acquire LLM API
\* token").
AcquireToken(c) ==
    /\ step[c] = "acquiring"
    /\ step' \in {[step EXCEPT ![c] = "sending"], [step EXCEPT ![c] = "err"]}
    /\ UNCHANGED <<texts, status, body, returned>>

\* build_zed_llm_url("/embeddings")?, serialising the request with the
\* model and the texts, building the POST with the bearer token, and
\* http_client.send(..).await?: any of them may fail; otherwise a response
\* arrives with some status and body.
Send(c) ==
    /\ step[c] = "sending"
    /\ \/ /\ step' = [step EXCEPT ![c] = "err"]
          /\ UNCHANGED <<status, body>>
       \/ /\ step' = [step EXCEPT ![c] = "responded"]
          /\ \E ok \in BOOLEAN, b \in Bodies :
                /\ status' = [status EXCEPT ![c] = ok]
                /\ body' = [body EXCEPT ![c] = b]
    /\ UNCHANGED <<texts, returned>>

\* Reading the body to a string may fail (read_to_string(..).await?);
\* parsing it as CloudEmbeddingResponse fails on an unparsable body;
\* otherwise every element of `data` becomes an Embedding, in order, and
\* Ok(embeddings) is returned, however many there are.
ReadEmbeddings(c) ==
    \/ step' = [step EXCEPT ![c] = "err"] /\ UNCHANGED returned
    \/ /\ ~body[c].parses
       /\ step' = [step EXCEPT ![c] = "err"]
       /\ UNCHANGED returned
    \/ /\ body[c].parses
       /\ step' = [step EXCEPT ![c] = "ok"]
       /\ returned' = [returned EXCEPT ![c] = body[c].data]

\* A non-success status reads the body into the error message (the read
\* itself may fail) and returns Err; a success status goes on to read and
\* parse the embeddings.
ReadResponse(c) ==
    /\ step[c] = "responded"
    /\ \/ /\ ~status[c]
          /\ step' = [step EXCEPT ![c] = "err"]
          /\ UNCHANGED returned
       \/ /\ status[c]
          /\ ReadEmbeddings(c)
    /\ UNCHANGED <<texts, status, body>>

Next ==
    \E c \in Calls :
        Embed(c) \/ AcquireToken(c) \/ Send(c) \/ ReadResponse(c)

Spec == Init /\ [][Next]_vars

(***************************************************************************)
(* Properties                                                              *)
(***************************************************************************)

\* embed is handed a batch of texts and its Ok result stands for their
\* embeddings, one per text.  embed returns whatever number of embeddings
\* the body held and never compares it with the batch; only callers
\* outside this repository could catch the mismatch.
OneEmbeddingPerText ==
    \A c \in Calls : step[c] = "ok" => returned[c] = texts[c]

=============================================================================
