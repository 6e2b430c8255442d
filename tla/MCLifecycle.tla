----------------------------- MODULE MCLifecycle -----------------------------
EXTENDS Lifecycle

\* A file for a headless client; and one that switches features off and has
\* numbers toConfig passes over.
HeadlessFile == [switch |-> [managed |-> FALSE], number |-> Nothing]

SparseFile ==
    [switch |-> [offline_storage |-> FALSE, connectivity_check_enabled |-> FALSE],
     number |-> [max_queue_size |-> -1, max_batch_size |-> 5, max_retries |-> 0]]

MCDisks ==
    {[home |-> Unreadable, etc |-> Unreadable],
     [home |-> HeadlessFile, etc |-> SparseFile]}
=============================================================================
