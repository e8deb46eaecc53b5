-------------------------------- MODULE Client --------------------------------
(***************************************************************************)
(* The client program: main logs in, then reads text from the keyboard and *)
(* sends it; a thread reads what the front end pushes (handle_read); a     *)
(* thread of the user interface draws the messages (update_timeline).      *)
(* Messages of main and the reader go into one list under MESSAGES_MUTEX,  *)
(* the screen is shared under SYNC_MUTEX.  The front end and the user are  *)
(* external.                                                               *)
(***************************************************************************)
EXTENDS Integers, Sequences

CONSTANTS
    LINES,     \* the height of the terminal
    MaxText,   \* MAX_MESSAGE_SIZE + NUMBER_OF_CHARS_IN_SEND
    CommandLength, \* characters of the shorter command
    None,      \* nobody holds a mutex
    MaxKeys,   \* bound: keys pressed
    MaxPushes  \* bound: notifications from the front end

CHATBOX_HEIGHT  == 6
CHATBOX_START_Y == LINES - CHATBOX_HEIGHT
TimelineHeight  == LINES - CHATBOX_HEIGHT

ASSUME ClientAssumption ==
    /\ {LINES, MaxKeys, MaxPushes} \subseteq Nat /\ LINES > CHATBOX_HEIGHT
    /\ MaxText \in Nat \ {0} /\ CommandLength \in 0 .. MaxText
    /\ None \notin {"main", "reader", "timeline"}

VARIABLES
    pc,           \* where each thread is
    socket,       \* the connection: how its other end left it
    answer,       \* can_login, once written by the front end
    pushed,       \* kinds of the notifications the front end has sent
    taken,        \* how many of them the reader has read
    asked,        \* the front end has the login
    idx, isFull,  \* UI_get_text: characters in the buffer, none more fits
    keys,         \* keys pressed
    list,         \* messages_list, newest first
    messagesLock, \* MESSAGES_MUTEX
    screenLock,   \* SYNC_MUTEX
    say,          \* the message a thread adds, the list it saw, what follows
    said,         \* messages each thread has added
    old,          \* old_messages_list of update_timeline
    drawn         \* the timeline on the screen: messages and their rows

netVars  == <<socket, answer, pushed, taken, asked>>
textVars == <<idx, isFull, keys>>
listVars == <<list, messagesLock, say, said>>
drawVars == <<screenLock, old, drawn>>
vars == <<pc, netVars, textVars, listVars, drawVars>>

Silent == [msg |-> None, seen |-> <<>>, then |-> "gone"]

Init ==
    /\ pc = [main |-> "start", reader |-> "none", timeline |-> "none"]
    /\ socket = "none" /\ answer = "none"
    /\ pushed = <<>> /\ taken = 0
    /\ asked = FALSE
    /\ idx = 0 /\ isFull = FALSE /\ keys = 0
    /\ list = <<>> /\ messagesLock = None /\ screenLock = None
    /\ say = [main |-> Silent, reader |-> Silent]
    /\ said = [main |-> 0, reader |-> 0]
    /\ old = <<>> /\ drawn = <<>>

Goto(t, l) == pc' = [pc EXCEPT ![t] = l]

\* The process ends, with all its threads.
Gone == pc' = [main |-> "gone", reader |-> "none", timeline |-> "none"]
Running == pc.main # "gone"

\* A message of thread t is made; UI_add_new_message is next, then l.
Say(t, kind, l) ==
    /\ Goto(t, "add")
    /\ said' = [said EXCEPT ![t] = @ + 1]
    /\ say' = [say EXCEPT ![t] =
          [msg |-> [by |-> t, id |-> said[t] + 1, kind |-> kind], seen |-> <<>>, then |-> l]]
    /\ UNCHANGED <<list, messagesLock>>

-----------------------------------------------------------------------------
(* UI_add_new_message, by main or the reader.                               *)

\* Fault: without the mutex.
AddSeeUnlocked(t) ==
    /\ pc[t] = "add"
    /\ say' = [say EXCEPT ![t].seen = list]
    /\ Goto(t, "link")
    /\ UNCHANGED <<netVars, textVars, list, messagesLock, said, drawVars>>

AddSee(t) ==
    /\ pc[t] = "add" /\ messagesLock = None
    /\ messagesLock' = t
    /\ say' = [say EXCEPT ![t].seen = list]
    /\ Goto(t, "link")
    /\ UNCHANGED <<netVars, textVars, list, said, drawVars>>

AddLink(t) ==
    /\ pc[t] = "link"
    /\ list' = <<say[t].msg>> \o say[t].seen
    /\ messagesLock' = None
    /\ say' = [say EXCEPT ![t] = Silent]
    /\ Goto(t, say[t].then)
    /\ UNCHANGED <<netVars, textVars, said, drawVars>>

AddMessage(t) == AddSee(t) \/ AddLink(t)

-----------------------------------------------------------------------------
(* main, until it is logged in.                                             *)

\* No name or a bad one.
BadHandle ==
    /\ pc.main = "start" /\ Gone
    /\ UNCHANGED <<netVars, textVars, listVars, drawVars>>

UIStart ==
    /\ pc.main = "start"
    /\ pc' = [pc EXCEPT !.main = "connect", !.timeline = "sleep"]
    /\ UNCHANGED <<netVars, textVars, listVars, drawVars>>

\* A host that is not found, a socket or a connection that is refused.
ConnectFails ==
    /\ pc.main = "connect"
    /\ Say("main", "info", "end")
    /\ UNCHANGED <<netVars, textVars, drawVars>>

Connect ==
    /\ pc.main = "connect"
    /\ socket' = "up"
    /\ Goto("main", "login")
    /\ UNCHANGED <<answer, pushed, taken, asked, textVars, listVars, drawVars>>

\* write() by main.  After the front end has closed, the first write is lost and
\* provokes a reset; a reset fails the call that meets it, and after that a
\* write raises SIGPIPE, which nobody handles.
Written ==
    /\ asked' = (asked \/ socket = "up")
    /\ socket' = IF socket = "up" THEN "up" ELSE "broken"
WriteFails  == socket = "reset"
WriteKills  == socket = "broken"

SendLogin ==
    /\ pc.main = "login"
    /\ Written
    /\ IF WriteFails THEN Say("main", "info", "end")
       ELSE Goto("main", "ask") /\ UNCHANGED listVars
    /\ UNCHANGED <<answer, pushed, taken, textVars, drawVars>>

AnswerFails ==
    /\ pc.main = "ask" /\ answer = "none" /\ socket = "reset"
    /\ socket' = "broken"
    /\ Say("main", "info", "end")
    /\ UNCHANGED <<answer, pushed, taken, asked, textVars, drawVars>>

\* The answer is there; if the connection ended first, read() returns 0, which
\* is not an error, and can_login was never set.
MayLogin(can) ==
    /\ pc.main = "ask"
    /\ IF answer = "none" THEN socket \in {"closed", "broken"}
       ELSE answer = (IF can THEN "yes" ELSE "no")

LoggedIn ==
    /\ MayLogin(TRUE)
    /\ pc' = [pc EXCEPT !.main = "draw", !.reader = "read"]
    /\ UNCHANGED <<netVars, textVars, listVars, drawVars>>

Refused ==
    /\ MayLogin(FALSE)
    /\ Say("main", "info", "end")
    /\ UNCHANGED <<netVars, textVars, drawVars>>

\* UI_end: whatever failed, the program waits for the escape key.
UIEnd ==
    /\ pc.main = "end" /\ Gone
    /\ UNCHANGED <<netVars, textVars, listVars, drawVars>>

-----------------------------------------------------------------------------
(* main: UI_get_text and what is done with the text.                        *)

DrawLock ==
    /\ pc.main = "draw" /\ screenLock = None
    /\ screenLock' = "main"
    /\ Goto("main", "drawing")
    /\ UNCHANGED <<netVars, textVars, listVars, old, drawn>>

DrawChatbox ==
    /\ pc.main = "drawing"
    /\ screenLock' = None
    /\ Goto("main", "getch")
    /\ UNCHANGED <<netVars, textVars, listVars, old, drawn>>

KeyPressed == pc.main = "getch" /\ keys < MaxKeys /\ keys' = keys + 1

\* Fault: a line that was full stays full.
BackspaceFull ==
    /\ KeyPressed /\ Goto("main", "draw")
    /\ idx' = IF idx = 0 THEN 0 ELSE idx - 1
    /\ UNCHANGED <<netVars, isFull, listVars, drawVars>>

Backspace ==
    /\ KeyPressed /\ Goto("main", "draw")
    /\ idx' = IF idx = 0 THEN 0 ELSE idx - 1
    /\ isFull' = FALSE
    /\ UNCHANGED <<netVars, listVars, drawVars>>

Character ==
    /\ KeyPressed /\ Goto("main", "draw")
    /\ IF isFull THEN UNCHANGED <<idx, isFull>>
       ELSE idx' = idx + 1 /\ isFull' = (idx' = MaxText)
    /\ UNCHANGED <<netVars, listVars, drawVars>>

NewLine == idx' = 0 /\ isFull' = FALSE

\* The text is not SEND or FOLLOW and what follows.
EnterUnknown ==
    /\ KeyPressed /\ NewLine
    /\ Say("main", "info", "draw")
    /\ UNCHANGED <<netVars, drawVars>>

\* identify_command: long enough to be SEND or FOLLOW and what follows.
MayBeCommand == idx >= CommandLength

EnterCommand ==
    /\ KeyPressed /\ NewLine /\ MayBeCommand
    /\ Goto("main", "write")
    /\ UNCHANGED <<netVars, listVars, drawVars>>

WriteText ==
    /\ pc.main = "write"
    /\ Written
    /\ IF WriteKills THEN Gone /\ UNCHANGED listVars
       ELSE IF WriteFails THEN Say("main", "info", "draw")
       ELSE Goto("main", "draw") /\ UNCHANGED listVars
    /\ UNCHANGED <<answer, pushed, taken, textVars, drawVars>>

Key  == Backspace \/ Character \/ EnterUnknown \/ EnterCommand
Main == SendLogin \/ AnswerFails \/ LoggedIn \/ Refused \/ DrawLock \/ DrawChatbox \/ WriteText \/ AddMessage("main")

-----------------------------------------------------------------------------
(* handle_read.                                                             *)

ReadPush ==
    /\ pc.reader = "read" /\ taken < Len(pushed)
    /\ taken' = taken + 1
    /\ Say("reader", pushed[taken + 1], "read")
    /\ UNCHANGED <<socket, answer, pushed, asked, textVars, drawVars>>

\* A message, and another try.
ReadFails ==
    /\ pc.reader = "read" /\ taken = Len(pushed) /\ socket = "reset"
    /\ socket' = "broken"
    /\ Say("reader", "info", "read")
    /\ UNCHANGED <<answer, pushed, taken, asked, textVars, drawVars>>

ReadEnd ==
    /\ pc.reader = "read" /\ taken = Len(pushed) /\ socket \in {"closed", "broken"}
    /\ Say("reader", "info", "kill")
    /\ UNCHANGED <<netVars, textVars, drawVars>>

\* SIGINT has its default action: the process ends at once.
Interrupt ==
    /\ pc.reader = "kill" /\ Gone
    /\ UNCHANGED <<netVars, textVars, listVars, drawVars>>

Reader == ReadPush \/ ReadFails \/ ReadEnd \/ Interrupt \/ AddMessage("reader")

-----------------------------------------------------------------------------
(* update_timeline.                                                         *)

\* The lines a message is given.
Height(msg) == IF msg.kind = "message" THEN 5 ELSE 3

\* The lines left below the messages before msgs[i], from the top down.
LinesLeft(msgs) ==
    LET left[i \in 1 .. Len(msgs)] ==
            IF i = 1 THEN CHATBOX_START_Y - 3 ELSE left[i - 1] - Height(msgs[i - 1])
    IN  left

\* Newest first, while more lines are left than are not to be used.
Rows(msgs, unused) ==
    LET left  == LinesLeft(msgs)
        shown == {i \in DOMAIN msgs : \A j \in 1 .. i : left[j] > unused}
    IN  [i \in shown |-> [msg |-> msgs[i], row |-> CHATBOX_START_Y - left[i]]]

\* Fault: down to the last line.
LayoutToTheEnd(msgs) == Rows(msgs, 0)

\* The loop of update_timeline: "Give us some space in the last one".
Layout(msgs) == Rows(msgs, 5)

\* clear_timeline: every line between the borders.
ClearTimeline == drawn' = <<>>

TimelineLook ==
    /\ pc.timeline = "sleep" /\ messagesLock = None /\ old # list
    /\ messagesLock' = "timeline"
    /\ ClearTimeline
    /\ Goto("timeline", "lock")
    /\ UNCHANGED <<netVars, textVars, list, say, said, screenLock, old>>

TimelineLock ==
    /\ pc.timeline = "lock" /\ screenLock = None
    /\ screenLock' = "timeline"
    /\ Goto("timeline", "draw")
    /\ UNCHANGED <<netVars, textVars, listVars, old, drawn>>

\* Fault: the list is remembered but not its mutex released.
TimelineDrawLocked ==
    /\ pc.timeline = "draw"
    /\ drawn' = Layout(list)
    /\ screenLock' = None
    /\ old' = list
    /\ Goto("timeline", "sleep")
    /\ UNCHANGED <<netVars, textVars, listVars>>

TimelineDraw ==
    /\ pc.timeline = "draw"
    /\ drawn' = Layout(list)
    /\ screenLock' = None
    /\ old' = list
    /\ messagesLock' = None
    /\ Goto("timeline", "sleep")
    /\ UNCHANGED <<netVars, textVars, list, say, said>>

Timeline == TimelineLook \/ TimelineLock \/ TimelineDraw

-----------------------------------------------------------------------------
(* The front end: it answers the login, pushes and closes.                  *)

FEAnswers ==
    /\ socket = "up" /\ asked /\ answer = "none"
    /\ answer' \in {"yes", "no"}
    /\ UNCHANGED <<pc, socket, pushed, taken, asked, textVars, listVars, drawVars>>

FEPushes ==
    /\ socket = "up" /\ answer = "yes" /\ Len(pushed) < MaxPushes
    /\ \E kind \in {"message", "info"} : pushed' = Append(pushed, kind)
    /\ UNCHANGED <<pc, socket, answer, taken, asked, textVars, listVars, drawVars>>

FECloses ==
    /\ socket = "up"
    /\ socket' \in {"closed", "reset"}
    /\ UNCHANGED <<pc, answer, pushed, taken, asked, textVars, listVars, drawVars>>

Outside == FEAnswers \/ FEPushes \/ FECloses

-----------------------------------------------------------------------------
Next ==
    /\ Running
    /\ \/ BadHandle \/ UIStart \/ ConnectFails \/ Connect \/ UIEnd
       \/ Main \/ Key \/ Reader \/ Timeline \/ Outside

Spec == Init /\ [][Next]_vars

\* The three threads run; the user and the front end need not do anything.
Fairness ==
    /\ WF_vars(Running /\ Main)
    /\ WF_vars(Running /\ Reader)
    /\ WF_vars(Running /\ Timeline)

FairSpec == Spec /\ Fairness

-----------------------------------------------------------------------------
Speaker  == {"main", "reader"}
Messages == [by : Speaker, id : Nat, kind : {"message", "info"}]

\* The line typed is full exactly when it has all the characters it may have
\* (UI_get_text).
TypeOK ==
    /\ pc \in [main : {"start", "connect", "login", "ask", "draw", "drawing", "getch", "write",
                      "add", "link", "end", "gone"},
               reader : {"none", "read", "add", "link", "kill"},
               timeline : {"none", "sleep", "lock", "draw"}]
    /\ socket \in {"none", "up", "closed", "reset", "broken"} /\ answer \in {"none", "yes", "no"}
    /\ pushed \in Seq({"message", "info"}) /\ taken \in 0 .. Len(pushed)
    /\ asked \in BOOLEAN
    /\ isFull \in BOOLEAN /\ (isFull <=> idx = MaxText)
    /\ idx \in 0 .. MaxText /\ keys \in 0 .. MaxKeys
    /\ list \in Seq(Messages) /\ old \in Seq(Messages)
    /\ messagesLock \in {None, "main", "reader", "timeline"}
    /\ screenLock \in {None, "main", "timeline"}
    /\ said \in [main : Nat, reader : Nat]

Adding(t) == pc[t] \in {"add", "link"}

\* The messages of t that are to be in the list.
Made(t) == said[t] - (IF Adding(t) THEN 1 ELSE 0)

(***************************************************************************)
(* Every message of main and of the reader gets into the list, once, and   *)
(* each thread's in the order it made them, although both add to it and    *)
(* the timeline reads it (UI_add_new_message).                             *)
(***************************************************************************)
MessagesKept ==
    Running =>
        /\ \A i \in DOMAIN list : list[i].id \in 1 .. Made(list[i].by)
        /\ \A i, j \in DOMAIN list :
              i < j /\ list[i].by = list[j].by => list[i].id > list[j].id
        /\ \A t \in Speaker : \A k \in 1 .. Made(t) :
              \E i \in DOMAIN list : list[i].by = t /\ list[i].id = k

(***************************************************************************)
(* When the timeline has been drawn it shows the newest messages from the  *)
(* top, without a gap; no two share a line, none reaches the border or the *)
(* chat box, and a message is left out only when fewer than the lines of   *)
(* the largest would remain below the others (update_timeline).            *)
(***************************************************************************)
TimelineShowsNewest ==
    pc.timeline = "sleep" /\ old # <<>> =>
        /\ Len(drawn) <= Len(old)
        /\ \A i \in DOMAIN drawn :
            /\ drawn[i].msg = old[i]
            /\ drawn[i].row \in 2 .. TimelineHeight - 3
            /\ i > 1 => drawn[i].row >= drawn[i - 1].row + 2
        /\ Len(drawn) < Len(old) =>
            LET last == drawn[Len(drawn)]
            IN  IF drawn = <<>> THEN TimelineHeight <= 8
                ELSE last.row + Height(last.msg) + 5 >= TimelineHeight

(***************************************************************************)
(* Unless the program ends, again and again no message waits to be added   *)
(* and the timeline has been drawn from all of them: the two mutexes, of   *)
(* which only the timeline holds both, are never kept (update_timeline,    *)
(* UI_add_new_message).                                                    *)
(***************************************************************************)
EveryMessageShown ==
    []<>(~Running \/ (old = list /\ ~Adding("main") /\ ~Adding("reader")))

(***************************************************************************)
(* "The server closed the connection" (client.c:244): the user gets to see *)
(* it before the program ends.                                             *)
(***************************************************************************)
ClosingIsShown ==
    [][pc.reader = "kill" /\ pc'.main = "gone" => old = list]_vars

=============================================================================
