-------------------------------- MODULE News --------------------------------
(***************************************************************************)
(* The news screen: every resume asks NewsPresenter for the news, and the  *)
(* answer comes through two workers, the web service and the translation,  *)
(* to the main thread, where it moves a progress dialog that cannot be     *)
(* cancelled, a placeholder and the list.  The list's clicks are subscribed *)
(* to, with a debounce, by each success.  A pause disposes all of it, and  *)
(* leaves the dialog alone.                                                *)
(***************************************************************************)
EXTENDS Naturals, Sequences

CONSTANTS
  MaxResumes,  \* bound: resumes in a run
  MaxClicks    \* bound: clicks in a run

NewsAssumption == MaxResumes \in Nat /\ MaxClicks \in Nat

VARIABLES
  screen,         \* "resumed" or "paused"
  resumes,        \* how often it was resumed
  stream,         \* how far the workers are
  uiQueue,        \* events on their way to the main thread
  uiError,        \* an error is on its way, or came
  dialog,         \* is the progress dialog shown?
  placeholder,    \* is the placeholder shown instead of the list?
  subscriptions,  \* to the clicks of the list
  debounced,      \* how many of them hold a click back
  clicks, details \* history: clicks, and detail screens opened

newsVars == <<screen, resumes, stream, uiQueue, uiError, dialog, placeholder,
              subscriptions, debounced, clicks, details>>
viewVars   == <<dialog, placeholder>>
clickVars  == <<subscriptions, debounced, clicks, details>>

Init ==
  /\ screen = "paused" /\ resumes = 0
  /\ stream = "disposed" /\ uiQueue = <<>> /\ uiError = FALSE
  /\ dialog = FALSE /\ placeholder = FALSE
  /\ subscriptions = 0 /\ debounced = 0 /\ clicks = 0 /\ details = 0

-----------------------------------------------------------------------------
(* The life of the activity.                                               *)

Resume ==
  /\ screen = "paused" /\ resumes < MaxResumes
  /\ screen' = "resumed" /\ resumes' = resumes + 1
  /\ stream' = "subscribed" /\ uiQueue' = <<>> /\ uiError' = FALSE
  /\ UNCHANGED <<viewVars, clickVars>>

\* A mutant of Pause: the clicks' subscriptions are not in the composite.
PauseKeepsClicks ==
  /\ screen = "resumed"
  /\ screen' = "paused" /\ stream' = "disposed" /\ uiQueue' = <<>>
  /\ UNCHANGED <<resumes, uiError, viewVars, clickVars>>

\* onPause: the composite's streams are disposed, with what they hold back.
Pause ==
  /\ screen = "resumed"
  /\ screen' = "paused" /\ stream' = "disposed" /\ uiQueue' = <<>>
  /\ subscriptions' = 0 /\ debounced' = 0
  /\ UNCHANGED <<resumes, uiError, viewVars, clicks, details>>

-----------------------------------------------------------------------------
(* getNews, on the workers.                                                *)

Emits(from, to, events) ==
  /\ stream = from /\ stream' = to /\ uiQueue' = uiQueue \o events
  /\ UNCHANGED <<screen, resumes, uiError, viewVars, clickVars>>

\* startWith is ahead of the request's answer; an error of the request is turned
\* into an event of the stream, one of the translation is not.
StartsWithProgress == Emits("subscribed", "requested", <<"progress">>)
RequestFails       == Emits("requested", "sent", <<"failure">>)
RequestAnswered    == Emits("requested", "translating", <<>>)
Translated         == Emits("translating", "sent", <<"success">>)

\* observeOn delivers an error before the events that still wait.
TranslationFails ==
  /\ stream = "translating" /\ stream' = "sent"
  /\ uiError' = TRUE /\ uiQueue' = <<>>
  /\ UNCHANGED <<screen, resumes, viewVars, clickVars>>

-----------------------------------------------------------------------------
(* The main thread.                                                        *)

\* A mutant of ShowEvent: the dialog is dismissed with the list only.
FailureKeepsDialog(event) ==
  /\ dialog' = IF event = "failure" THEN dialog ELSE event = "progress"
  /\ placeholder' = (event = "failure")
  /\ subscriptions' = subscriptions + (IF event = "success" THEN 1 ELSE 0)

\* onNext of getNews: the success shows the news, which subscribes to the clicks.
ShowEvent(event) ==
  /\ dialog' = (event = "progress")
  /\ placeholder' = (event = "failure")
  /\ subscriptions' = subscriptions + (IF event = "success" THEN 1 ELSE 0)

Deliver ==
  /\ uiQueue # <<>>
  /\ ShowEvent(Head(uiQueue))
  /\ uiQueue' = Tail(uiQueue)
  /\ UNCHANGED <<screen, resumes, stream, uiError, debounced, clicks, details>>

\* A click on an item: each subscription holds its latest click back.
Click ==
  /\ screen = "resumed" /\ ~dialog /\ ~placeholder /\ clicks < MaxClicks
  /\ clicks' = clicks + 1 /\ debounced' = subscriptions
  /\ UNCHANGED <<screen, resumes, stream, uiQueue, uiError, viewVars, subscriptions, details>>

\* The time of a debounce is over: openNewsDetails.
OpenNewsDetails ==
  /\ debounced > 0
  /\ debounced' = debounced - 1 /\ details' = details + 1
  /\ UNCHANGED <<screen, resumes, stream, uiQueue, uiError, viewVars, subscriptions, clicks>>

Next == \/ Resume \/ Pause
        \/ StartsWithProgress \/ RequestFails \/ RequestAnswered
        \/ Translated \/ TranslationFails
        \/ Deliver \/ Click \/ OpenNewsDetails

Spec == Init /\ [][Next]_newsVars

-----------------------------------------------------------------------------
\* When a load has ended and all its events are delivered the dialog is gone, also
\* one that an earlier, disposed load had left.  The exception is a translation
\* that failed, whose error is only printed.
DialogGoesUnlessBroken ==
  stream = "sent" /\ uiQueue = <<>> /\ ~uiError => ~dialog

\* One click opens one detail screen at most, however often the news was shown.
OneDetailPerClick == details <= clicks
=============================================================================
