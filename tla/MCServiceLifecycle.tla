-------------------------- MODULE MCServiceLifecycle --------------------------
(* ServiceLifecycle for TLC: each circumstance alone and some that meet.    *)
EXTENDS ServiceLifecycle

MCWorlds == {{c} : c \in Circumstances}
            \cup {{}, {"log to file", "log file unwritable"},
                  {"log to file", "tracing"}, {"no grpc port", "http port taken"}}
=============================================================================
