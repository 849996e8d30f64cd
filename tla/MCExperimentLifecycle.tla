----------------------- MODULE MCExperimentLifecycle -----------------------
(* Instances of ExperimentLifecycle for TLC. *)
EXTENDS ExperimentLifecycle

Everywhere == Live
Nowhere == {}

\* A death or an exception here leaves a file or a directory the database does
\* not know: the windows between mkdir and INSERT INTO sessions, and between
\* os.replace and INSERT INTO checkpoints.
Unindexed == {"row", "firstRecord", "set", "record", "stopSet", "stopRecord"}
SafeCrashes == Live \ Unindexed

\* Exceptions up to the final checkpoint, but not in the unindexed windows and
\* not after the session row exists and its context does not.
SafeRaises == {"mkdir", "first", "firstReplace", "adapter", "save", "replace"}

\* One statement of each phase: before the session is known, inside the
\* adapter, after the outcome is durable, and inside the handler.
SomeRaises == {"files", "adapter", "close", "except"}
SomeCrashes == {"row", "adapter", "set", "close", "exceptSet"}

=============================================================================
