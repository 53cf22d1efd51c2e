\* One embedding per text: embed never checks the count the server sent.
CONSTANTS
    c1 = c1
    c2 = c2
    Calls = {c1, c2}
    BatchSize = 2
    MaxData = 3
SPECIFICATION Spec
INVARIANT OneEmbeddingPerText
\* Every call ends in Ok or Err and the model starts no new call on the
\* same slot; the index may stop embedding.
CHECK_DEADLOCK FALSE
