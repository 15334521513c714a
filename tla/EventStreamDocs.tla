-------------------------- MODULE EventStreamDocs --------------------------
(***************************************************************************)
(* What the comments of client.rs say and the code does not do.             *)
(***************************************************************************)
EXTENDS EventStream

\* "Set the maximum number of retries." (client.rs:55): between two resets the
\* stream connects again at most that often.  A retry the server asks for is
\* counted on a clone (client.rs:254) and forgotten.
RetryLimitHolds == max_retries # NoLimit => manual_attempts + auto_attempts <= max_retries
=============================================================================
