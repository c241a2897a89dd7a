------------------------------ MODULE MCWorker ------------------------------
EXTENDS Worker

CONSTANTS j1

\* EndReported whatever the descendants of a program do: a descendant that keeps
\* stdout open keeps process_end waiting (MCWorkerHeirs.cfg).
EndReportedAnyway ==
    StdinMoves => \A j \in Job :
        child[j] \in {"exited", "reaped"} ~> proc[j] = "done" \/ worker = "ended"
=============================================================================
