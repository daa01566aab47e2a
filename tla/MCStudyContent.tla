--------------------------- MODULE MCStudyContent ---------------------------
(* One set, its owner and a moderator with the role of an administrator;   *)
(* one request beside one import job of two chunks.                        *)
EXTENDS StudyContent

CONSTANTS set1, owner, moderator, req1, job1

MCSets == {set1}
MCOwner == [s \in MCSets |-> owner]
MCUsers == {owner, moderator}
MCRoles == [u \in MCUsers |-> IF u = moderator THEN {"PlatformAdmin"} ELSE {"Student"}]
MCRequests == {req1}
MCJobs == {job1}
=============================================================================
