--------------------------- MODULE BrowserActions ---------------------------
(***************************************************************************)
(* The Playwright side of the crawler: execute_action, the retry loop of   *)
(* crawler/actions.py, and extract_page_state and capture_page, which put  *)
(* what the page shows into files (crawler/capture.py).                    *)
(*                                                                         *)
(* A timeout tells nothing about the page: a click may have been           *)
(* dispatched, a request may have arrived, before the wait for what it     *)
(* started ran out.  A page is also alive: between reading the document    *)
(* and taking the picture its scripts may turn it into another one.        *)
(* Reading the accessibility tree is part of ReadPage; its failure is      *)
(* suppressed, like that of the waits for an idle network.                 *)
(***************************************************************************)
EXTENDS Naturals

CONSTANTS
    Pages, NoPage,  \* what a browser may show; nothing
    Urls, Url,      \* Url[p]: the address page p is shown at
    Actions, Kind,  \* Kind[x]: the type of action x
    Leads,          \* Leads[x][p]: what x makes of page p; NoPage: no such element
    Malformed,      \* actions without selector, url or text, or of no known type
    Torn,           \* a JSON file that was cut short
    MaxCalls,       \* bound: calls in a behaviour
    Horizon         \* bound: the last second; a call takes at most three

Kinds == {"navigate", "click", "type", "scroll"}
Seconds == 0..Horizon

ASSUME BrowserAssumption ==
    /\ Pages # {} /\ Actions # {}
    /\ NoPage \notin Pages /\ Torn \notin Pages \cup {NoPage}
    /\ Url \in [Pages -> Urls]
    /\ Kind \in [Actions -> Kinds] /\ Malformed \subseteq Actions
    /\ Leads \in [Actions -> [Pages -> Pages \cup {NoPage}]]
    /\ MaxCalls \in Nat /\ Horizon \in Nat /\ Horizon >= 3 * MaxCalls

VARIABLES
    page,           \* what the browser of the call shows
    second,         \* the clock, as far as a file name can tell
    calls, caller,
    action, attempt,
    effects, lates, \* how often the action landed, and without being noticed
    outcome,        \* of the last call
    state,          \* the record extract_page_state is filling
    started,        \* captures by address and second
    pictures, sheets, \* the PNG and JSON files: the page they show
    returned,       \* the records that were handed out
    pc

call == <<calls, caller, action, attempt, effects, lates>>
files == <<started, pictures, sheets>>
vars == <<page, second, call, outcome, state, files, returned, pc>>

Slots == Urls \X Seconds
Record == [url : Urls, second : Seconds, dom : Pages \cup {NoPage},
           shot : BOOLEAN, success : BOOLEAN, drifted : BOOLEAN]
NoRecord == [url |-> CHOOSE u \in Urls : TRUE, second |-> 0, dom |-> NoPage,
             shot |-> FALSE, success |-> FALSE, drifted |-> FALSE]

\* max_retries
MaxRetries == 2

\* Mutant of FileName: the hash of the address is left out.
FileNameBySecond(url, s) == <<CHOOSE u \in Urls : TRUE, s>>

\* get_unique_filename: a hash of the address and the time, in seconds.
FileName(url, s) == <<url, s>>

Name == FileName(state.url, state.second)

Init ==
    /\ page = (CHOOSE p \in Pages : TRUE) /\ second = 0
    /\ calls = 0 /\ caller = "none" /\ action = CHOOSE x \in Actions : TRUE
    /\ attempt = 0 /\ effects = 0 /\ lates = 0 /\ outcome = "none"
    /\ state = NoRecord
    /\ started = [n \in Slots |-> 0]
    /\ pictures = [n \in Slots |-> NoPage] /\ sheets = [n \in Slots |-> NoPage]
    /\ returned = {} /\ pc = "idle"

-----------------------------------------------------------------------------
(* execute_action                                                          *)

\* A call of f, in the same second as the one before or in the next.
Call(f) ==
    /\ pc = "idle" /\ calls < MaxCalls
    /\ calls' = calls + 1 /\ caller' = f
    /\ second' \in {second, second + 1}
    /\ attempt' = 0 /\ effects' = 0 /\ lates' = 0

\* The caller's page may have moved since the last call, or be another one.
ExecuteAction ==
    /\ Call("execute_action")
    /\ action' \in Actions /\ page' \in Pages
    /\ outcome' = "none" /\ state' = NoRecord
    /\ pc' = "perform"
    /\ UNCHANGED <<files, returned>>

Landing == action \notin Malformed /\ Leads[action][page] # NoPage

\* One pass through _perform_action; `landed`: the page took the action.
Perform(landed) ==
    /\ pc = "perform"
    /\ landed => Landing
    /\ page' = IF landed THEN Leads[action][page] ELSE page
    /\ effects' = IF landed THEN effects + 1 ELSE effects
    /\ UNCHANGED <<calls, caller, action, state, files, returned>>

Performed ==
    /\ Perform(TRUE)
    /\ pc' = "extract"
    /\ UNCHANGED <<second, attempt, lates, outcome>>

\* PlaywrightTimeoutError, before or after the action landed.
TimedOut(landed) ==
    /\ Perform(landed)
    /\ action \notin Malformed /\ Kind[action] # "scroll"
    /\ landed => Kind[action] \in {"navigate", "click"}
    /\ lates' = IF landed THEN lates + 1 ELSE lates

\* Mutant of Retry: the count starts anew.
RetryForEver ==
    /\ TimedOut(FALSE)
    /\ attempt' = 1 - attempt
    /\ UNCHANGED <<second, outcome, pc>>

\* Mutant of GiveUp: the last attempt is retried as well.
RetryOnceMore ==
    \E landed \in BOOLEAN :
      /\ TimedOut(landed)
      /\ attempt = MaxRetries
      /\ attempt' = attempt + 1
      /\ UNCHANGED <<second, outcome, pc>>

Retry ==
    \E landed \in BOOLEAN :
      /\ TimedOut(landed)
      /\ attempt < MaxRetries
      /\ attempt' = attempt + 1 /\ second' = second + 1
      /\ UNCHANGED <<outcome, pc>>

GiveUp ==
    \E landed \in BOOLEAN :
      /\ TimedOut(landed)
      /\ attempt = MaxRetries
      /\ outcome' = "timeout" /\ pc' = "idle"
      /\ UNCHANGED <<second, attempt>>

\* Mutant of Fail: every error is taken for a transient one.
FailAndRetry ==
    \E landed \in BOOLEAN :
      /\ Perform(landed)
      /\ attempt < MaxRetries
      /\ attempt' = attempt + 1 /\ second' = second + 1
      /\ UNCHANGED <<lates, outcome, pc>>

\* Any other error, a ValueError of _perform_action included, is final.  A
\* navigation within the document has no response: it lands and is an error.
Fail ==
    \E landed \in BOOLEAN :
      /\ Perform(landed)
      /\ outcome' = "failed" /\ pc' = "idle"
      /\ UNCHANGED <<second, attempt, lates>>

-----------------------------------------------------------------------------
(* capture_page: a browser of its own, one page, one record.               *)

CapturePage ==
    /\ Call("capture_page")
    /\ UNCHANGED <<action, files, returned>>
    /\ \E u \in Urls : state' = [NoRecord EXCEPT !.url = u]
    /\ \/ page' \in Pages /\ outcome' = "none" /\ pc' = "extract"
       \/ outcome' = "failed" /\ pc' = "idle" /\ UNCHANGED page

-----------------------------------------------------------------------------
(* extract_page_state                                                      *)

\* makedirs is outside the try: both callers take it for a failure of theirs.
ExtractRaises ==
    /\ pc = "extract"
    /\ outcome' = "failed" /\ pc' = "idle"
    /\ UNCHANGED <<page, second, call, state, files, returned>>

\* execute_action names a capture by page.url, capture_page by the url it got.
Address == IF caller = "execute_action" THEN Url[page] ELSE state.url

\* The file names, and title and document of the page, unless they raise.
Read(success) ==
    /\ pc = "extract"
    /\ state' = [NoRecord EXCEPT !.url = Address, !.second = second,
                   !.dom = IF success THEN page ELSE NoPage, !.success = success]
    /\ started' = [started EXCEPT ![<<Address, second>>] = @ + 1]
    /\ UNCHANGED <<page, second, call, outcome, pictures, sheets, returned>>

ReadPage == Read(TRUE) /\ pc' = "picture"
ReadFails == Read(FALSE) /\ pc' = "return"

\* The page turns into another one by itself while it is captured.
Drift ==
    /\ pc = "picture" /\ ~state.drifted
    /\ page' \in Pages \ {page}
    /\ state' = [state EXCEPT !.drifted = TRUE]
    /\ UNCHANGED <<second, call, outcome, files, returned, pc>>

TakePicture ==
    /\ pc = "picture"
    /\ pictures' = [pictures EXCEPT ![Name] = page]
    /\ state' = [state EXCEPT !.shot = TRUE]
    /\ pc' = "dump"
    /\ UNCHANGED <<page, second, call, outcome, started, sheets, returned>>

PictureFails ==
    /\ pc = "picture"
    /\ state' = [state EXCEPT !.success = FALSE]
    /\ pc' = "return"
    /\ UNCHANGED <<page, second, call, outcome, files, returned>>

Dump ==
    /\ pc = "dump"
    /\ sheets' = [sheets EXCEPT ![Name] = state.dom]
    /\ pc' = "return"
    /\ UNCHANGED <<page, second, call, outcome, state, started, pictures, returned>>

\* The file cannot be opened, or not be written to its end.
DumpFails ==
    /\ pc = "dump"
    /\ state' = [state EXCEPT !.success = FALSE]
    /\ sheets' \in {sheets, [sheets EXCEPT ![Name] = Torn]}
    /\ pc' = "return"
    /\ UNCHANGED <<page, second, call, outcome, started, pictures, returned>>

\* execute_action succeeds whatever became of the record.
ReturnState ==
    /\ pc = "return" /\ caller = "execute_action"
    /\ outcome' = "success" /\ pc' = "idle"
    /\ returned' = returned \cup {state} /\ state' = NoRecord
    /\ UNCHANGED <<page, second, call, files>>

\* capture_page closes its browser last; if that raises, all has failed.
ReturnCapture ==
    /\ pc = "return" /\ caller = "capture_page"
    /\ \E success \in {FALSE, state.success} :
         /\ outcome' = IF success THEN "success" ELSE "failed"
         /\ returned' = returned \cup {[state EXCEPT !.success = success]}
    /\ state' = NoRecord /\ pc' = "idle"
    /\ UNCHANGED <<page, second, call, files>>

-----------------------------------------------------------------------------
Extract ==
    \/ ExtractRaises \/ ReadPage \/ ReadFails \/ Drift \/ TakePicture
    \/ PictureFails \/ Dump \/ DumpFails \/ ReturnState \/ ReturnCapture

Step == Performed \/ Retry \/ GiveUp \/ Fail \/ Extract

Stopped == pc = "idle" /\ calls = MaxCalls /\ UNCHANGED vars

Next == ExecuteAction \/ CapturePage \/ Step \/ Stopped

Spec == Init /\ [][Next]_vars

\* A call goes on: every wait of Playwright has a timeout, and the page answers
\* title, content and the request for its tree, which have none.
FairSpec == Spec /\ WF_vars(Step)

-----------------------------------------------------------------------------
TypeOK ==
    /\ page \in Pages /\ second \in 0..(3 * calls) /\ calls \in 0..MaxCalls
    /\ caller \in {"none", "execute_action", "capture_page"} /\ action \in Actions
    /\ attempt \in 0..MaxRetries
    /\ effects \in 0..(MaxRetries + 1) /\ lates \in 0..(MaxRetries + 1)
    /\ outcome \in {"none", "success", "timeout", "failed"}
    /\ state \in Record /\ returned \subseteq Record
    /\ started \in [Slots -> 0..MaxCalls]
    /\ pictures \in [Slots -> Pages \cup {NoPage}]
    /\ sheets \in [Slots -> Pages \cup {NoPage, Torn}]
    /\ pc \in {"idle", "perform", "extract", "picture", "dump", "return"}

\* What execute_action's answer tells about the page (Crawler.act: the action
\* is skipped "rather than retried"): a success has performed the action once
\* more than there were late timeouts, a timeout as often as there were late
\* ones, any other error at most once more.  Only a late timeout repeats it.
OnceUnlessLate ==
    pc = "idle" /\ caller = "execute_action" =>
      /\ outcome = "success" => effects = lates + 1
      /\ outcome = "timeout" => effects = lates
      /\ outcome = "failed" => effects \in {lates, lates + 1}

Alone(r) == started[<<r.url, r.second>>] = 1

\* Evidence stays together ("generates a unique timestamped filename"): the
\* picture a record points to, and the JSON of one that succeeded, show the
\* page the record was read from, unless the page moved on by itself or the
\* same address was captured again within the second.  No JSON is without its
\* picture.
EvidenceMatches ==
    /\ \A r \in returned : Alone(r) /\ ~r.drifted =>
         /\ r.shot => pictures[FileName(r.url, r.second)] = r.dom
         /\ r.success => sheets[FileName(r.url, r.second)] = r.dom
    /\ \A n \in Slots : sheets[n] # NoPage => pictures[n] # NoPage

\* A call returns, however often it times out.
Returns == pc # "idle" ~> pc = "idle"
=============================================================================
