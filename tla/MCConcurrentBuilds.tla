------------------------- MODULE MCConcurrentBuilds -------------------------
(***************************************************************************)
(* Two halves of one state space: builders that overlap and nobody asking, *)
(* or builders one at a time and an answer composed while they publish.    *)
(* Only the last crawl of the first half lists a page twice.               *)
(***************************************************************************)
EXTENDS MCIndexPublication

VARIABLE half

MCInit == IndexInit /\ half \in {"builders", "answers"} /\ Len(crawls[1].fetched) <= 1

Free(b) == half = "answers" => \A c \in Builders \ {b} : build[c] = Idle

MCNext ==
    /\ UNCHANGED half
    /\ \/ \E b \in Builders : Free(b) /\ BuildNext(b)
       \/ PublishCrawl /\ (half = "answers" => Len(crawls'[Len(crawls')].fetched) <= 1)
       \/ half = "answers" /\ \E r \in Readers : Answer(r)

MCSpec == MCInit /\ [][MCNext]_<<indexVars, half>>
=============================================================================
