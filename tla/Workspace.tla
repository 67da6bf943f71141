------------------------------ MODULE Workspace ------------------------------
(* The page of the local UI (ui/static/app.js, ui/static/cleanup.js): the       *)
(* operator selects sources, submits them, opens jobs, searches and proofreads *)
(* while answers of the server arrive in any order, late, or not at all.  What *)
(* a callback may still do is decided by the job on show and by three          *)
(* generation counters.                                                        *)
(*                                                                            *)
(* A source and the job made of it have one name.  The server answers what it  *)
(* likes; an answer that fails is one of its answers.                          *)
EXTENDS Naturals, FiniteSets

CONSTANTS
    Files, Urls,    \* the sources the operator may select
    Queries,
    Nothing,
    MaxActs         \* how often they act

VARIABLES
    source,     \* [gen, name, staged]: the selection; staged once it is uploaded
    media,      \* the file behind the player and the job it was bound to
    submission, \* [gen, name, at] under way, or Nothing
    watched,    \* the job on show
    card,       \* what the last answer said of it: "unknown", "live", "failed", "over"
    rows,       \* [job, seeks]: the transcript on the page, or Nothing
    hits,       \* [job, query]: the search results on the page, or Nothing
    query, searchGen,
    polls, timers, latest,  \* per job, the polls and the timers that are out; and the
                            \* job of the timer stopPolling can still clear
    calls,      \* the other calls that are out: [kind, job, gen, query]
    panel,      \* the proofreading panel: [job, gen, open, variant]
    acts        \* how often the operator has acted

Page == <<source, media, submission>>
Polling == <<polls, timers, latest>>
Search == <<hits, query, searchGen>>
vars == <<Page, watched, card, rows, Search, Polling, calls, panel, acts>>

Sources == Files \cup Urls

Init ==
    /\ source = [gen |-> 0, name |-> Nothing, staged |-> FALSE]
    /\ media = [file |-> Nothing, job |-> Nothing]
    /\ submission = Nothing
    /\ watched = Nothing /\ card = "unknown" /\ rows = Nothing
    /\ hits = Nothing /\ query = Nothing /\ searchGen = 0
    /\ polls = [j \in Sources |-> 0] /\ timers = [j \in Sources |-> 0] /\ latest = Nothing
    /\ calls = {}
    /\ panel = [job |-> Nothing, gen |-> 0, open |-> FALSE, variant |-> Nothing]
    /\ acts = 0

Act == acts < MaxActs /\ acts' = acts + 1

NoMedia == [file |-> Nothing, job |-> Nothing]

(* Sources and submission ***************************************************)

\* setUpload: the rows on the page stay as they are.
SelectFile(f) ==
    /\ Act
    /\ source' = [gen |-> source.gen + 1, name |-> f, staged |-> FALSE]
    /\ media' = [file |-> f, job |-> Nothing]
    /\ UNCHANGED <<submission, watched, card, rows, Search, Polling, calls, panel>>

\* selectBrowserSource: the rows are drawn again, without a player.
SelectUrl(u) ==
    /\ Act
    /\ source' = [gen |-> source.gen + 1, name |-> u, staged |-> FALSE]
    /\ media' = NoMedia
    /\ rows' = IF rows = Nothing THEN Nothing ELSE [rows EXCEPT !.seeks = FALSE]
    /\ UNCHANGED <<submission, watched, card, Search, Polling, calls, panel>>

\* One submission at a time; a file is uploaded first, unless it is staged.
Submit ==
    /\ submission = Nothing /\ source.name # Nothing /\ Act
    /\ submission' = [gen |-> source.gen, name |-> source.name,
                      at |-> IF source.name \in Files /\ ~ source.staged
                             THEN "uploading" ELSE "creating"]
    /\ UNCHANGED <<source, media, watched, card, rows, Search, Polling, calls, panel>>

SubmissionFails ==
    /\ submission # Nothing /\ submission' = Nothing
    /\ UNCHANGED <<source, media, watched, card, rows, Search, Polling, calls, panel, acts>>

Uploaded ==
    /\ submission # Nothing /\ submission.at = "uploading"
    /\ IF submission.gen = source.gen
       THEN /\ source' = [source EXCEPT !.staged = TRUE]
            /\ submission' = [submission EXCEPT !.at = "creating"]
       ELSE submission' = Nothing /\ UNCHANGED source
    /\ UNCHANGED <<media, watched, card, rows, Search, Polling, calls, panel, acts>>

(* The job on show **********************************************************)

\* What watchJob(j) does when the player is then bound to job `bound`.
Watch(j, bound) ==
    /\ watched' = j /\ card' = "unknown" /\ rows' = Nothing
    /\ hits' = Nothing /\ searchGen' = searchGen + 1 /\ UNCHANGED query
    /\ panel' = [job |-> j, gen |-> panel.gen + 1, open |-> FALSE, variant |-> Nothing]
    /\ timers' = IF latest = Nothing THEN timers ELSE [timers EXCEPT ![latest] = @ - 1]
    /\ latest' = Nothing
    /\ polls' = [polls EXCEPT ![j] = @ + 1]
    /\ media' = IF bound = j THEN [media EXCEPT !.job = j] ELSE NoMedia

\* (mutant: the job is bound and shown, whatever was selected since)
AcceptedAnyway ==
    /\ submission # Nothing /\ submission.at = "creating"
    /\ submission' = Nothing
    /\ Watch(submission.name,
             IF submission.name \in Files /\ media.file # Nothing THEN submission.name ELSE Nothing)
    /\ UNCHANGED <<source, calls, acts>>

\* The new job is shown, unless another source was selected meanwhile.
Accepted ==
    /\ submission # Nothing /\ submission.at = "creating"
    /\ submission' = Nothing
    /\ IF submission.gen # source.gen
       THEN UNCHANGED <<source, media, watched, card, rows, Search, Polling, panel>>
       ELSE /\ source' = IF source.name \in Urls THEN source
                         ELSE [source EXCEPT !.name = Nothing, !.staged = FALSE]
            /\ Watch(submission.name,
                     IF submission.name \in Files /\ media.file # Nothing
                     THEN submission.name ELSE Nothing)
    /\ UNCHANGED <<calls, acts>>

OpenRecent(j) ==
    /\ Act
    /\ Watch(j, media.job)
    /\ UNCHANGED <<source, submission, calls>>

\* A timer for the next poll, which stopPolling can clear from now on.
PollAgain(j) == timers' = [timers EXCEPT ![j] = @ + 1] /\ latest' = j

Call(kind, job, gen, q) == [kind |-> kind, job |-> job, gen |-> gen, query |-> q]

\* (mutant: an answer that fails ends the polling)
PollReplyGivesUp(j) ==
    /\ polls[j] > 0
    /\ polls' = [polls EXCEPT ![j] = @ - 1]
    /\ UNCHANGED <<Page, watched, card, rows, Search, timers, latest, calls, panel, acts>>

PollReply(j) ==
    /\ polls[j] > 0
    /\ polls' = [polls EXCEPT ![j] = @ - 1]
    /\ \/ watched # j /\ UNCHANGED <<card, timers, latest, calls>>
       \/ /\ watched = j
          /\ \/ PollAgain(j) /\ card' \in {card, "live"} /\ UNCHANGED calls
             \/ card' = "failed" /\ UNCHANGED <<timers, latest, calls>>
             \/ /\ card' = "over" /\ calls' = calls \cup {Call("page", j, 0, Nothing)}
                /\ UNCHANGED <<timers, latest>>
    /\ UNCHANGED <<Page, watched, rows, Search, panel, acts>>

TimerFires(j) ==
    /\ timers[j] > 0
    /\ timers' = [timers EXCEPT ![j] = @ - 1]
    /\ latest' \in {IF latest = j THEN Nothing ELSE latest} \cup
                   {l \in {latest} : timers[j] > 1}
    /\ polls' = IF watched = j THEN [polls EXCEPT ![j] = @ + 1] ELSE polls
    /\ UNCHANGED <<Page, watched, card, rows, Search, calls, panel, acts>>

\* The last page of a transcript: the rows, and the event the panel listens to.
PageReply(c) ==
    /\ c \in calls /\ c.kind = "page"
    /\ IF watched = c.job
       THEN /\ rows' = [job |-> c.job, seeks |-> media.file # Nothing]
            /\ panel' = [job |-> c.job, gen |-> panel.gen + 1, open |-> TRUE, variant |-> Nothing]
            /\ calls' = (calls \ {c}) \cup {Call("panel", c.job, panel.gen + 1, Nothing)}
       ELSE UNCHANGED <<rows, panel>> /\ calls' = calls \ {c}
    /\ UNCHANGED <<Page, watched, card, Search, Polling, acts>>

\* Another page, or none any more because the call failed.
PageEnds(c) ==
    /\ c \in calls /\ c.kind = "page" /\ calls' = calls \ {c}
    /\ UNCHANGED <<Page, watched, card, rows, Search, Polling, panel, acts>>

Resume ==
    /\ watched # Nothing /\ card = "failed" /\ Act
    /\ calls' = calls \cup {Call("resume", watched, 0, Nothing)}
    /\ UNCHANGED <<Page, watched, card, rows, Search, Polling, panel>>

\* Whichever job is on show by then is polled.
ResumeReply(c) ==
    /\ c \in calls /\ c.kind = "resume" /\ calls' = calls \ {c}
    /\ \/ UNCHANGED polls
       \/ polls' = [polls EXCEPT ![watched] = @ + 1]
    /\ UNCHANGED <<Page, watched, card, rows, Search, timers, latest, panel, acts>>

(* Search *******************************************************************)

TypeQuery(q) ==
    /\ q # query /\ Act
    /\ query' = q /\ hits' = Nothing /\ searchGen' = searchGen + 1
    /\ UNCHANGED <<Page, watched, card, rows, Polling, calls, panel>>

SearchJob ==
    /\ query # Nothing /\ watched # Nothing /\ Act
    /\ hits' = Nothing /\ searchGen' = searchGen + 1
    /\ calls' = calls \cup {Call("search", watched, searchGen + 1, query)}
    /\ UNCHANGED <<Page, watched, card, rows, query, Polling, panel>>

SearchReply(c) ==
    /\ c \in calls /\ c.kind = "search" /\ calls' = calls \ {c}
    /\ \/ UNCHANGED hits
       \/ /\ c.job = watched /\ c.gen = searchGen /\ c.query = query
          /\ hits' = [job |-> c.job, query |-> c.query]
    /\ UNCHANGED <<Page, watched, card, rows, query, searchGen, Polling, panel, acts>>

(* The proofreading panel ***************************************************)

StartCleanup ==
    /\ panel.open /\ Act
    /\ calls' = calls \cup {Call("panel", panel.job, panel.gen, Nothing)}
    /\ UNCHANGED <<Page, watched, card, rows, Search, Polling, panel>>

\* The status of the job the call was made for: it ends the polling, or goes on.
PanelReply(c) ==
    /\ c \in calls /\ c.kind = "panel"
    /\ IF c.job = panel.job /\ c.gen = panel.gen
       THEN /\ panel' \in {panel, [panel EXCEPT !.variant = c.job], [panel EXCEPT !.variant = Nothing]}
            /\ calls' \in {calls, calls \ {c}}
       ELSE UNCHANGED panel /\ calls' = calls \ {c}
    /\ UNCHANGED <<Page, watched, card, rows, Search, Polling, acts>>

Next ==
    \/ \E f \in Files : SelectFile(f)
    \/ \E u \in Urls : SelectUrl(u)
    \/ Submit \/ SubmissionFails \/ Uploaded \/ Accepted
    \/ \E j \in Sources : OpenRecent(j) \/ PollReply(j) \/ TimerFires(j)
    \/ \E c \in calls :
          PageReply(c) \/ PageEnds(c) \/ ResumeReply(c) \/ SearchReply(c) \/ PanelReply(c)
    \/ Resume \/ SearchJob \/ StartCleanup
    \/ \E q \in Queries : TypeQuery(q)

Spec == Init /\ [][Next]_vars

(* Properties ***************************************************************)

\* Transcript, search results and correction on the page are those of the job on
\* show, the results those of the query in the box, and the player is bound to a
\* job only with the file the job was made of, in whatever order answers come.
ShownIsWatched ==
    /\ rows # Nothing => rows.job = watched
    /\ hits # Nothing => hits.job = watched /\ hits.query = query
    /\ panel.job = watched /\ panel.variant \in {Nothing, watched}
    /\ media.job # Nothing => media.job = media.file /\ media.job = watched

\* A job on show that has not ended is being followed: a poll or a timer is out.
WatchedIsFollowed ==
    watched # Nothing /\ card \in {"unknown", "live"} => polls[watched] + timers[watched] > 0

\* Both together: what the page shows is of the watched job, and goes on being so.
PageFollowsWatched == ShownIsWatched /\ WatchedIsFollowed

\* (app.js:382) "so a timestamp can never seek the wrong media"
TimestampsSeekOwnMedia ==
    rows # Nothing /\ rows.seeks /\ media.file # Nothing => media.file = rows.job
=============================================================================
