---------------------------- MODULE ClientProofs ----------------------------
(***************************************************************************)
(* What TLAPS proves of Client: the types, with the line that is typed,    *)
(* and that no message is lost, doubled or put before an older one of the  *)
(* same thread, for a terminal, a text and a number of keys and            *)
(* notifications of any size.                                              *)
(***************************************************************************)
EXTENDS Client, SequenceTheorems, WellFoundedInduction, TLAPS

-----------------------------------------------------------------------------
(***************************************************************************)
(* Why: what a thread is about to add is its latest message, and while it  *)
(* links it the list is still the one it saw, because it alone holds the   *)
(* mutex.  The reader begins when main has logged in.                      *)
(***************************************************************************)
SayInv ==
    /\ pc.main \in {"start", "connect", "login", "ask"} => pc.reader = "none"
    /\ pc.main = "add" \/ pc.main = "link" => say.main.then \in {"draw", "end"}
    /\ pc.reader = "add" \/ pc.reader = "link" => say.reader.then \in {"read", "kill"}
    /\ Running => \A t \in Speaker :
          /\ Adding(t) => /\ say[t].msg \in Messages /\ said[t] > 0
                          /\ say[t].msg.by = t /\ say[t].msg.id = said[t]
          /\ pc[t] = "link" => messagesLock = t /\ say[t].seen = list
    /\ pc.timeline \in {"lock", "draw"} => messagesLock = "timeline"

(***************************************************************************)
(* What the timeline has drawn is the list it remembers.                   *)
(***************************************************************************)
DrawnInv ==
    /\ pc.main = "start" => pc.timeline = "none" /\ old = <<>>
    /\ pc.timeline = "sleep" /\ old # <<>> => drawn = Layout(old)

-----------------------------------------------------------------------------
\* What TypeOK says of each group of variables.
NetType ==
    /\ socket \in {"none", "up", "closed", "reset", "broken"} /\ answer \in {"none", "yes", "no"}
    /\ pushed \in Seq({"message", "info"}) /\ taken \in 0 .. Len(pushed)
    /\ asked \in BOOLEAN
TextType ==
    /\ isFull \in BOOLEAN /\ (isFull <=> idx = MaxText)
    /\ idx \in 0 .. MaxText /\ keys \in 0 .. MaxKeys
ListType ==
    /\ list \in Seq(Messages) /\ messagesLock \in {None, "main", "reader", "timeline"}
    /\ said \in [main : Nat, reader : Nat]
DrawType == old \in Seq(Messages) /\ screenLock \in {None, "main", "timeline"}
PcType ==
    pc \in [main : {"start", "connect", "login", "ask", "draw", "drawing", "getch", "write",
                    "add", "link", "end", "gone"},
            reader : {"none", "read", "add", "link", "kill"},
            timeline : {"none", "sleep", "lock", "draw"}]

\* TypeOK leaves out the messages being made.
SayType == say \in [main : [msg : Messages \cup {None}, seen : Seq(Messages),
                            then : {"draw", "end", "read", "kill", "gone"}],
                    reader : [msg : Messages \cup {None}, seen : Seq(Messages),
                              then : {"draw", "end", "read", "kill", "gone"}]]

Types == PcType /\ NetType /\ TextType /\ ListType /\ DrawType /\ SayType

LEMMA TypeParts ==
    /\ TypeOK <=> PcType /\ NetType /\ TextType /\ ListType /\ DrawType
    /\ TypeOK' <=> PcType' /\ NetType' /\ TextType' /\ ListType' /\ DrawType'
    BY DEF TypeOK, PcType, NetType, TextType, ListType, DrawType

LEMMA ListMembers ==
    ASSUME ListType
    PROVE  /\ \A i \in DOMAIN list : list[i].by \in Speaker /\ list[i].id \in Nat
           /\ DOMAIN list = 1 .. Len(list) /\ Len(list) \in Nat
<1>1. list \in Seq(Messages)
    BY DEF ListType
<1>2. \A i \in 1 .. Len(list) : list[i] \in Messages
    BY <1>1
<1> QED BY <1>1, <1>2 DEF Messages

IInv == Types /\ SayInv /\ MessagesKept

-----------------------------------------------------------------------------
(* What a step does, as far as the messages are concerned.                  *)

\* Where a thread that makes no message and adds none goes from and to.
Apart == {"start", "connect", "login", "ask", "draw", "drawing", "getch", "write",
          "end", "none", "read", "kill"}

\* Nothing is said, nothing added.
Quietly ==
    /\ PcType' /\ UNCHANGED <<list, say, said>>
    /\ \A t \in Speaker : pc'[t] = pc[t] \/ {pc[t], pc'[t]} \subseteq Apart
    /\ \A t \in Speaker : pc[t] = "link" /\ messagesLock = t => messagesLock' = t
    /\ pc'.timeline \in {"lock", "draw"} => messagesLock' = "timeline"
    /\ pc'.main \in {"start", "connect", "login", "ask"} => pc'.reader = "none"

Ended ==
    /\ pc' = [main |-> "gone", reader |-> "none", timeline |-> "none"]
    /\ UNCHANGED <<list, say, said>>

\* Thread t makes a message.
Says(t) ==
    \E kind \in {"message", "info"}, l \in {"draw", "end", "read", "kill"} :
        /\ pc[t] \in Apart /\ Say(t, kind, l)
        /\ t = "main" => l \in {"draw", "end"}
        /\ t = "reader" => l \in {"read", "kill"} /\ pc[t] = "read"

LEMMA SayingDoes ==
    ASSUME IInv, Running, NEW t \in Speaker, Says(t)
    PROVE  (PcType /\ ListType /\ SayType /\ SayInv /\ MessagesKept)'
<1> PICK kind \in {"message", "info"}, l \in {"draw", "end", "read", "kill"} :
        /\ pc[t] \in Apart /\ Say(t, kind, l)
        /\ t = "main" => l \in {"draw", "end"}
        /\ t = "reader" => l \in {"read", "kill"} /\ pc[t] = "read"
    BY DEF Says
<1>1. PcType'
    BY DEF IInv, Types, PcType, Say, Goto, Speaker
<1>2. ListType'
    BY DEF IInv, Types, ListType, Say, Speaker
<1>3. [by |-> t, id |-> said[t] + 1, kind |-> kind] \in Messages
    BY DEF IInv, Types, ListType, Messages, Speaker
<1>4. SayType'
  <2>1. [msg |-> [by |-> t, id |-> said[t] + 1, kind |-> kind], seen |-> <<>>, then |-> l]
           \in [msg : Messages \cup {None}, seen : Seq(Messages),
                then : {"draw", "end", "read", "kill", "gone"}]
    BY <1>3
  <2> QED BY <2>1 DEF IInv, Types, SayType, Say, Speaker
<1>5. /\ pc'[t] = "add" /\ said'[t] = said[t] + 1 /\ said[t] \in Nat
      /\ say'[t].msg = [by |-> t, id |-> said[t] + 1, kind |-> kind] /\ say'[t].then = l
    BY DEF IInv, Types, PcType, SayType, ListType, Say, Goto, Speaker
<1>6. \A r \in Speaker : r # t => pc'[r] = pc[r] /\ said'[r] = said[r] /\ say'[r] = say[r]
    BY DEF IInv, Types, PcType, SayType, ListType, Say, Goto, Speaker
<1>7. list' = list /\ messagesLock' = messagesLock /\ pc'.timeline = pc.timeline
    BY DEF Say, Goto, IInv, Types, PcType, Speaker
<1>8. SayInv'
  <2>1. \A r \in Speaker : Adding(r)' => /\ say'[r].msg \in Messages /\ said'[r] > 0
                                         /\ say'[r].msg.by = r /\ say'[r].msg.id = said'[r]
    BY <1>3, <1>5, <1>6 DEF IInv, SayInv, Adding, Speaker
  <2>2. \A r \in Speaker : pc'[r] = "link" => messagesLock' = r /\ say'[r].seen = list'
    BY <1>5, <1>6, <1>7 DEF IInv, SayInv, Speaker
  <2>3. /\ pc'.main = "add" \/ pc'.main = "link" => say'.main.then \in {"draw", "end"}
        /\ pc'.reader = "add" \/ pc'.reader = "link" => say'.reader.then \in {"read", "kill"}
    BY <1>5, <1>6 DEF IInv, SayInv, Speaker
  <2>4. pc'.main \in {"start", "connect", "login", "ask"} => pc'.reader = "none"
    BY <1>5, <1>6 DEF IInv, SayInv, Speaker
  <2> QED BY <1>7, <2>1, <2>2, <2>3, <2>4 DEF IInv, SayInv
<1>9. \A r \in Speaker : Made(r)' = Made(r)
    BY <1>5, <1>6 DEF Made, Adding, Apart
<1>10. \A i \in DOMAIN list : list[i].by \in Speaker
    BY ListMembers DEF IInv, Types
<1>11. MessagesKept'
    BY <1>7, <1>9, <1>10 DEF IInv, MessagesKept
<1> QED BY <1>1, <1>2, <1>4, <1>8, <1>11

LEMMA QuietlyDoes ==
    ASSUME IInv, Running, Quietly
    PROVE  (PcType /\ SayInv /\ MessagesKept)'
<1>1. \A t \in Speaker : Adding(t)' = Adding(t) /\ (pc'[t] = "link" <=> pc[t] = "link")
    BY DEF Quietly, Adding, Apart
<1>2. SayInv'
    BY <1>1 DEF IInv, SayInv, Quietly, Adding, Speaker, Apart
<1>3. \A t \in Speaker : Made(t)' = Made(t)
    BY <1>1 DEF Made, Quietly
<1>4. \A i \in DOMAIN list : list[i].by \in Speaker
    BY ListMembers DEF IInv, Types
<1>5. MessagesKept'
    BY <1>3, <1>4 DEF IInv, MessagesKept, Quietly
<1> QED BY <1>2, <1>5 DEF Quietly

LEMMA EndedDoes ==
    ASSUME IInv, Ended
    PROVE  (PcType /\ SayInv /\ MessagesKept)'
    BY DEF Ended, PcType, SayInv, MessagesKept, Running

LEMMA SeeingDoes ==
    ASSUME IInv, Running, NEW t \in Speaker, AddSee(t)
    PROVE  IInv'
<1>1. PcType'
    BY DEF IInv, Types, PcType, AddSee, Goto, Speaker
<1>2. ListType'
    BY DEF IInv, Types, ListType, AddSee, Speaker
<1>3. SayType'
    BY DEF IInv, Types, ListType, SayType, AddSee, Speaker
<1>4. NetType' /\ TextType' /\ DrawType'
    BY DEF IInv, Types, NetType, TextType, DrawType, AddSee, netVars, textVars, drawVars
<1>5. /\ pc[t] = "add" /\ pc'[t] = "link" /\ messagesLock = None /\ messagesLock' = t
      /\ say'[t].msg = say[t].msg /\ say'[t].then = say[t].then /\ say'[t].seen = list
    BY DEF IInv, Types, PcType, SayType, AddSee, Goto, Speaker
<1>6. \A r \in Speaker : r # t => pc'[r] = pc[r] /\ say'[r] = say[r]
    BY DEF IInv, Types, PcType, SayType, AddSee, Goto, Speaker
<1>7. list' = list /\ said' = said /\ pc'.timeline = pc.timeline
    BY DEF AddSee, Goto, IInv, Types, PcType, Speaker
<1>8. \A r \in Speaker : r # t => pc[r] # "link"
    BY <1>5, ClientAssumption DEF IInv, SayInv, Speaker
<1>9. \A r \in Speaker : Adding(r)' = Adding(r)
    BY <1>5, <1>6 DEF Adding
<1>10. SayInv'
  <2>1. \A r \in Speaker : Adding(r)' => /\ say'[r].msg \in Messages /\ said'[r] > 0
                                         /\ say'[r].msg.by = r /\ say'[r].msg.id = said'[r]
    BY <1>5, <1>6, <1>7, <1>9 DEF IInv, SayInv
  <2>2. \A r \in Speaker : pc'[r] = "link" => messagesLock' = r /\ say'[r].seen = list'
    BY <1>5, <1>6, <1>7, <1>8
  <2>3. /\ pc'.main = "add" \/ pc'.main = "link" => say'.main.then \in {"draw", "end"}
        /\ pc'.reader = "add" \/ pc'.reader = "link" => say'.reader.then \in {"read", "kill"}
    BY <1>5, <1>6 DEF IInv, SayInv, Speaker
  <2>4. pc'.timeline \notin {"lock", "draw"}
    BY <1>5, <1>7, ClientAssumption DEF IInv, SayInv
  <2>5. pc'.main \in {"start", "connect", "login", "ask"} => pc'.reader = "none"
    BY <1>5, <1>6 DEF IInv, SayInv, Speaker
  <2> QED BY <2>1, <2>2, <2>3, <2>4, <2>5 DEF SayInv
<1>11. \A r \in Speaker : Made(r)' = Made(r)
    BY <1>7, <1>9 DEF Made
<1>12. \A i \in DOMAIN list : list[i].by \in Speaker
    BY ListMembers DEF IInv, Types
<1>13. MessagesKept'
    BY <1>7, <1>11, <1>12 DEF IInv, MessagesKept
<1> QED BY <1>1, <1>2, <1>3, <1>4, <1>10, <1>13 DEF IInv, Types

LEMMA LinkingDoes ==
    ASSUME IInv, Running, NEW t \in Speaker, AddLink(t)
    PROVE  IInv'
<1>1. /\ pc[t] = "link" /\ say[t].msg \in Messages /\ say[t].msg.by = t
      /\ say[t].msg.id = said[t] /\ say[t].seen = list /\ said[t] \in Nat
      /\ list \in Seq(Messages) /\ said[t] > 0
    BY DEF AddLink, IInv, Types, ListType, SayInv, Adding, Speaker
<1>2. /\ list' \in Seq(Messages) /\ list'[1] = say[t].msg /\ Len(list') = Len(list) + 1
      /\ \A i \in 1 .. Len(list) : list'[i + 1] = list[i]
    BY <1>1 DEF AddLink
<1>3. /\ t = "main" => say[t].then \in {"draw", "end"}
      /\ t = "reader" => say[t].then \in {"read", "kill"}
    BY <1>1 DEF IInv, SayInv
<1>4. PcType'
    BY <1>3 DEF IInv, Types, PcType, AddLink, Goto, Speaker
<1>5. ListType'
    BY <1>2 DEF IInv, Types, ListType, AddLink
<1>6. Silent \in [msg : Messages \cup {None}, seen : Seq(Messages),
                  then : {"draw", "end", "read", "kill", "gone"}]
    BY DEF Silent
<1>7. SayType'
    BY <1>6 DEF IInv, Types, SayType, AddLink, Speaker
<1>8. NetType' /\ TextType' /\ DrawType'
    BY DEF IInv, Types, NetType, TextType, DrawType, AddLink, netVars, textVars, drawVars
<1>9. /\ pc'[t] = say[t].then /\ ~Adding(t)' /\ said' = said
      /\ \A r \in Speaker : r # t => pc'[r] = pc[r] /\ say'[r] = say[r]
    BY <1>3 DEF IInv, Types, PcType, SayType, AddLink, Goto, Speaker, Adding
<1>10. \A r \in Speaker : r # t => pc[r] # "link"
    BY <1>1 DEF IInv, SayInv
<1>11. SayInv'
  <2>1. \A r \in Speaker : Adding(r)' => /\ say'[r].msg \in Messages /\ said'[r] > 0
                                         /\ say'[r].msg.by = r /\ say'[r].msg.id = said'[r]
    BY <1>9 DEF IInv, SayInv, Adding
  <2>2. \A r \in Speaker : pc'[r] # "link"
    BY <1>9, <1>10 DEF Adding
  <2>3. /\ pc'.main = "add" \/ pc'.main = "link" => say'.main.then \in {"draw", "end"}
        /\ pc'.reader = "add" \/ pc'.reader = "link" => say'.reader.then \in {"read", "kill"}
    BY <1>9 DEF IInv, SayInv, Speaker, Adding
  <2>4. pc.timeline \notin {"lock", "draw"}
    BY <1>1, ClientAssumption DEF IInv, SayInv, Speaker
  <2>5. pc'.timeline = pc.timeline
    BY DEF AddLink, Goto, IInv, Types, PcType, Speaker
  <2>6. pc'.main \in {"start", "connect", "login", "ask"} => pc'.reader = "none"
    BY <1>1, <1>3, <1>9 DEF IInv, SayInv, Speaker
  <2> QED BY <2>1, <2>2, <2>3, <2>4, <2>5, <2>6 DEF SayInv
<1>12. /\ Made(t)' = said[t] /\ Made(t) = said[t] - 1
       /\ \A r \in Speaker : r # t => Made(r)' = Made(r)
    BY <1>1, <1>9 DEF Made, Adding
<1>13. \A r \in Speaker : Made(r) \in Int
    BY DEF Made, IInv, Types, ListType, Speaker
<1>14. /\ \A i \in 1 .. Len(list) : list[i].by \in Speaker /\ list[i].id \in Nat
       /\ DOMAIN list = 1 .. Len(list) /\ Len(list) \in Nat
       /\ DOMAIN list' = 1 .. Len(list) + 1
  <2>1. list' \in Seq(Messages)
    BY <1>2
  <2> QED BY <1>2, <2>1, ListMembers DEF IInv, Types
<1>15. MessagesKept'
  <2> PICK n \in Nat : n = Len(list)
    BY <1>14
  <2>1. /\ DOMAIN list = 1 .. n /\ DOMAIN list' = 1 .. n + 1
        /\ list'[1] = say[t].msg /\ \A i \in 1 .. n : list'[i + 1] = list[i]
        /\ \A i \in 1 .. n : list[i].by \in Speaker /\ list[i].id \in Nat
    BY <1>2, <1>14
  <2>2. \A i \in 1 .. n : list[i].id \in 1 .. Made(list[i].by)
    BY <2>1 DEF IInv, MessagesKept
  <2>3. \A i, j \in 1 .. n : i < j /\ list[i].by = list[j].by => list[i].id > list[j].id
    BY <2>1 DEF IInv, MessagesKept
  <2>4. \A r \in Speaker : \A k \in 1 .. Made(r) : \E i \in 1 .. n : list[i].by = r /\ list[i].id = k
    BY <2>1 DEF IInv, MessagesKept
  <2>5. ASSUME NEW i \in DOMAIN list'
        PROVE  i = 1 \/ \E j \in 1 .. n : i = j + 1 /\ list'[i] = list[j]
    <3>1. CASE i # 1
      <4>1. i - 1 \in 1 .. n /\ i = (i - 1) + 1
        BY <2>1, <3>1
      <4> QED BY <2>1, <4>1
    <3> QED BY <3>1
  <2> PICK made : made = [r \in Speaker |-> said'[r] - (IF pc'[r] \in {"add", "link"} THEN 1 ELSE 0)]
    OBVIOUS
  <2>6. /\ \A r \in Speaker : made[r] = Made(r)'
        /\ made[t] = said[t] /\ \A r \in Speaker : r # t => made[r] = Made(r)
    BY <1>12 DEF Made, Adding
  <2>7. \A i \in DOMAIN list' : list'[i].id \in 1 .. made[list'[i].by] /\ list'[i].by \in Speaker
    <3> SUFFICES ASSUME NEW i \in DOMAIN list'
                 PROVE  list'[i].id \in 1 .. made[list'[i].by] /\ list'[i].by \in Speaker
      OBVIOUS
    <3>1. CASE i = 1
      BY <1>1, <2>6, <2>1, <3>1
    <3>2. ASSUME NEW j \in 1 .. n, list'[i] = list[j]
          PROVE  list'[i].id \in 1 .. made[list'[i].by] /\ list'[i].by \in Speaker
      <4>1. list[j].id \in 1 .. Made(list[j].by) /\ list[j].by \in Speaker
        BY <2>1, <2>2
      <4>2. CASE list[j].by = t
        BY <1>1, <1>12, <2>6, <3>2, <4>1, <4>2
      <4>3. CASE list[j].by # t
        <5>1. made[list[j].by] = Made(list[j].by)
          BY <2>6, <4>1, <4>3
        <5> QED BY <3>2, <4>1, <5>1
      <4> QED BY <4>2, <4>3
    <3> QED BY <2>5, <3>1, <3>2
  <2>8. ASSUME NEW i \in DOMAIN list', NEW j \in DOMAIN list',
               i < j, list'[i].by = list'[j].by
        PROVE  list'[i].id > list'[j].id
    <3>1. PICK h \in 1 .. n : j = h + 1 /\ list'[j] = list[h]
      BY <2>1, <2>5, <2>8
    <3>2. CASE i = 1
      <4>1. list[h].by = t /\ list[h].id \in 1 .. Made(t)
        BY <1>1, <2>1, <2>2, <2>8, <3>1, <3>2
      <4> QED BY <1>1, <1>12, <2>1, <3>1, <3>2, <4>1
    <3>3. CASE i # 1
      <4>1. PICK g \in 1 .. n : i = g + 1 /\ list'[i] = list[g]
        BY <2>5, <3>3
      <4> QED BY <2>3, <2>8, <3>1, <4>1
    <3> QED BY <3>2, <3>3
  <2>9. ASSUME NEW r \in Speaker, NEW k \in 1 .. Made(r)'
        PROVE  \E i \in DOMAIN list' : list'[i].by = r /\ list'[i].id = k
    <3>1. CASE k \in 1 .. Made(r)
      <4>1. PICK i \in 1 .. n : list[i].by = r /\ list[i].id = k
        BY <2>4, <3>1
      <4>2. i + 1 \in DOMAIN list' /\ list'[i + 1] = list[i]
        BY <2>1
      <4> QED BY <4>1, <4>2
    <3>2. CASE k \notin 1 .. Made(r)
      <4>1. r = t /\ k = said[t]
        BY <1>1, <1>12, <1>13, <3>2
      <4> QED BY <1>1, <2>1, <4>1
    <3> QED BY <3>1, <3>2
  <2>10. \A i \in DOMAIN list' : made[list'[i].by] = said'[list'[i].by]
                                - (IF pc'[list'[i].by] \in {"add", "link"} THEN 1 ELSE 0)
    BY <2>7
  <2>11. \A i \in DOMAIN list' : list'[i].id \in
            1 .. said'[list'[i].by] - (IF pc'[list'[i].by] \in {"add", "link"} THEN 1 ELSE 0)
    BY <2>7, <2>10
  <2>12. (\A i \in DOMAIN list : list[i].id \in 1 .. Made(list[i].by))'
    BY <2>11 DEF Made, Adding
  <2> QED BY <2>8, <2>9, <2>12 DEF MessagesKept
<1> QED BY <1>4, <1>5, <1>7, <1>8, <1>11, <1>15 DEF IInv, Types

-----------------------------------------------------------------------------
(* The steps that add no message, one by one.                               *)

OtherTypes == NetType /\ TextType /\ DrawType /\ ListType

\* No thread goes to or from the places where a message is made.
StayApart ==
    /\ pc'.main = pc.main \/ {pc.main, pc'.main} \subseteq Apart
    /\ pc'.reader = pc.reader \/ {pc.reader, pc'.reader} \subseteq Apart

LEMMA QuietStep ==
    ASSUME PcType', UNCHANGED <<list, say, said>>, StayApart,
           messagesLock' = messagesLock \/ messagesLock \in {None, "timeline"},
           pc'.timeline \in {"lock", "draw"} => messagesLock' = "timeline",
           pc'.main \in {"start", "connect", "login", "ask"} => pc'.reader = "none"
    PROVE  Quietly
    BY ClientAssumption DEF Quietly, StayApart, Speaker

LEMMA QuietMain ==
    ASSUME PcType', UNCHANGED <<list, say, said, messagesLock>>, SayInv,
           pc.main \in Apart, pc'.main \in Apart \ {"start", "connect", "login", "ask"},
           pc'.reader = pc.reader, pc'.timeline = pc.timeline
    PROVE  Quietly
    BY QuietStep DEF SayInv, StayApart

LEMMA QuietOther ==
    ASSUME PcType', UNCHANGED <<list, say, said>>, SayInv,
           pc'.main = pc.main, pc'.reader = pc.reader,
           messagesLock' = messagesLock \/ messagesLock \in {None, "timeline"},
           pc'.timeline \in {"lock", "draw"} => messagesLock' = "timeline"
    PROVE  Quietly
    BY QuietStep DEF SayInv, StayApart

LEMMA LoginSteps ==
    ASSUME IInv, Running,
           BadHandle \/ UIStart \/ ConnectFails \/ Connect \/ UIEnd \/ SendLogin
             \/ AnswerFails \/ LoggedIn \/ Refused
    PROVE  /\ Quietly \/ Ended \/ Says("main")
           /\ OtherTypes'
<1> USE DEF IInv, Types, PcType, Gone, Goto, listVars
<1>1. ASSUME BadHandle \/ UIEnd PROVE Ended
    BY <1>1 DEF BadHandle, UIEnd, Ended
<1>2. ASSUME UIStart \/ Connect \/ LoggedIn \/ (SendLogin /\ ~WriteFails) PROVE Quietly
  <2>1. PcType' /\ UNCHANGED <<list, say, said, messagesLock>>
    BY <1>2 DEF UIStart, Connect, LoggedIn, MayLogin, SendLogin
  <2>2. /\ pc.main \in {"start", "connect", "login", "ask"} /\ pc'.main \in Apart
        /\ pc'.reader = pc.reader \/ (pc'.reader = "read" /\ pc'.main = "draw")
    <3>1. CASE UIStart
      BY <3>1 DEF UIStart, Apart
    <3>2. CASE Connect
      BY <3>2 DEF Connect, Apart
    <3>3. CASE LoggedIn
      BY <3>3 DEF LoggedIn, MayLogin, Apart
    <3>4. CASE SendLogin /\ ~WriteFails
      BY <3>4 DEF SendLogin, Apart
    <3> QED BY <1>2, <3>1, <3>2, <3>3, <3>4
  <2>3. pc'.timeline \in {pc.timeline, "sleep"}
    BY <1>2 DEF UIStart, Connect, LoggedIn, MayLogin, SendLogin
  <2>4. StayApart
    BY <2>2 DEF StayApart, SayInv, Apart
  <2> QED BY <2>1, <2>2, <2>3, <2>4, QuietStep DEF SayInv
<1>3. ASSUME ConnectFails \/ AnswerFails \/ Refused \/ (SendLogin /\ WriteFails)
      PROVE  Says("main")
    BY <1>3 DEF ConnectFails, AnswerFails, Refused, MayLogin, SendLogin, Says, Apart
<1>4. NetType'
    BY DEF NetType, netVars, BadHandle, UIEnd, UIStart, Connect, LoggedIn, MayLogin, SendLogin,
       ConnectFails, AnswerFails, Refused, Written
<1>5. UNCHANGED <<textVars, drawVars>>
    BY DEF BadHandle, UIEnd, UIStart, Connect, LoggedIn, SendLogin, ConnectFails, AnswerFails,
       Refused
<1>6. TextType' /\ DrawType'
    BY <1>5 DEF TextType, DrawType, textVars, drawVars
<1>7. ListType'
    BY <1>1, <1>2, <1>3, SayingDoes
       DEF ListType, BadHandle, UIEnd, UIStart, Connect, LoggedIn, SendLogin, ConnectFails,
       AnswerFails, Refused, Speaker
<1> QED BY <1>1, <1>2, <1>3, <1>4, <1>6, <1>7 DEF OtherTypes

LEMMA TextSteps ==
    ASSUME IInv, Running, DrawLock \/ DrawChatbox \/ Key \/ WriteText
    PROVE  /\ Quietly \/ Ended \/ Says("main")
           /\ OtherTypes'
<1> USE DEF IInv, Types, PcType, Gone, Goto, listVars, Key, KeyPressed, NewLine
<1>1. ASSUME WriteText, WriteKills PROVE Ended
    BY <1>1 DEF WriteText, Ended
<1>2. ASSUME DrawLock \/ DrawChatbox \/ Backspace \/ Character \/ EnterCommand
               \/ (WriteText /\ ~WriteKills /\ ~WriteFails)
      PROVE  Quietly
  <2>1. PcType' /\ UNCHANGED <<list, say, said, messagesLock>>
    BY <1>2 DEF DrawLock, DrawChatbox, Backspace, Character, EnterCommand, WriteText
  <2>2. /\ pc.main \in Apart /\ pc'.main \in {"drawing", "getch", "draw", "write"}
        /\ pc'.reader = pc.reader /\ pc'.timeline = pc.timeline
    BY <1>2 DEF DrawLock, DrawChatbox, Backspace, Character, EnterCommand, WriteText, Apart
  <2>3. pc'.main \in Apart \ {"start", "connect", "login", "ask"}
    BY <2>2 DEF Apart
  <2> QED BY <2>1, <2>2, <2>3, QuietMain
<1>3. ASSUME EnterUnknown \/ (WriteText /\ ~WriteKills /\ WriteFails)
      PROVE  Says("main")
    BY <1>3 DEF EnterUnknown, WriteText, Says, Apart
<1>4. NetType'
    BY DEF NetType, netVars, DrawLock, DrawChatbox, Backspace, Character, EnterCommand, WriteText,
       EnterUnknown, Written
<1>5. TextType'
  <2>1. MaxText \in Nat \ {0} /\ MaxKeys \in Nat
    BY ClientAssumption
  <2>2. CASE DrawLock \/ DrawChatbox \/ WriteText
    BY <2>2 DEF TextType, textVars, DrawLock, DrawChatbox, WriteText
  <2>3. CASE Key
    <3>1. keys' \in 0 .. MaxKeys
      BY <2>1, <2>3 DEF TextType, Backspace, Character, EnterCommand, EnterUnknown
    <3>2. CASE Character
      <4>1. CASE isFull
        BY <3>1, <3>2, <4>1 DEF TextType, Character
      <4>2. CASE ~isFull
        <5>1. isFull' \in BOOLEAN /\ (isFull' <=> idx' = MaxText)
          BY <3>2, <4>2, Zenon DEF Character
        <5>2. idx' \in 0 .. MaxText
          BY <2>1, <3>2, <4>2 DEF TextType, Character
        <5> QED BY <3>1, <5>1, <5>2 DEF TextType
      <4> QED BY <4>1, <4>2
    <3>3. CASE Backspace \/ EnterCommand \/ EnterUnknown
      <4>1. isFull' = FALSE
        BY <3>3 DEF Backspace, EnterCommand, EnterUnknown
      <4>2. isFull' \in BOOLEAN /\ ~isFull'
        BY <4>1, Zenon
      <4>3. idx' \in 0 .. MaxText /\ idx' # MaxText
        BY <2>1, <3>3 DEF TextType, Backspace, EnterCommand, EnterUnknown
      <4> QED BY <3>1, <4>2, <4>3 DEF TextType
    <3> QED BY <2>3, <3>2, <3>3
  <2> QED BY <2>2, <2>3
<1>6. DrawType'
    BY DEF DrawType, drawVars, DrawLock, DrawChatbox, Backspace, Character, EnterCommand,
       WriteText, EnterUnknown
<1>7. ListType'
    BY <1>1, <1>2, <1>3, SayingDoes
       DEF ListType, DrawLock, DrawChatbox, Backspace, Character, EnterCommand, WriteText,
       EnterUnknown, Speaker
<1> QED BY <1>1, <1>2, <1>3, <1>4, <1>5, <1>6, <1>7 DEF OtherTypes

LEMMA ReaderSteps ==
    ASSUME IInv, Running, ReadPush \/ ReadFails \/ ReadEnd \/ Interrupt
    PROVE  /\ Ended \/ Says("reader")
           /\ OtherTypes'
<1> USE DEF IInv, Types, PcType, Gone, Goto, listVars
<1>1. ASSUME Interrupt PROVE Ended
    BY <1>1 DEF Interrupt, Ended
<1>2. ASSUME ReadPush PROVE Says("reader")
  <2>1. pushed[taken + 1] \in {"message", "info"}
    BY <1>2 DEF NetType, ReadPush
  <2> QED BY <1>2, <2>1 DEF ReadPush, Says, Apart
<1>3. ASSUME ReadFails \/ ReadEnd PROVE Says("reader")
    BY <1>3 DEF ReadFails, ReadEnd, Says, Apart
<1>4. NetType'
    BY DEF NetType, netVars, ReadPush, ReadFails, ReadEnd, Interrupt
<1>5. TextType' /\ DrawType'
    BY DEF TextType, DrawType, textVars, drawVars, ReadPush, ReadFails, ReadEnd, Interrupt
<1>6. ListType'
    BY <1>2, <1>3, SayingDoes DEF ListType, Interrupt, Speaker
<1> QED BY <1>1, <1>2, <1>3, <1>4, <1>5, <1>6 DEF OtherTypes

LEMMA OtherSteps ==
    ASSUME IInv, Running, Timeline \/ Outside
    PROVE  Quietly /\ OtherTypes'
<1> USE DEF IInv, Types, Goto, listVars, Timeline, Outside
<1>1. Quietly
  <2>1. PcType' /\ UNCHANGED <<list, say, said>>
    BY DEF PcType, TimelineLook, TimelineLock, TimelineDraw, FEAnswers, FEPushes, FECloses
  <2>2. pc'.main = pc.main /\ pc'.reader = pc.reader
    BY DEF PcType, TimelineLook, TimelineLock, TimelineDraw, FEAnswers, FEPushes, FECloses
  <2>3. messagesLock' = messagesLock \/ messagesLock \in {None, "timeline"}
    BY DEF SayInv, TimelineLook, TimelineLock, TimelineDraw, FEAnswers, FEPushes, FECloses
  <2>4. pc'.timeline \in {"lock", "draw"} => messagesLock' = "timeline"
    BY DEF SayInv, PcType, TimelineLook, TimelineLock, TimelineDraw, FEAnswers, FEPushes, FECloses
  <2> QED BY <2>1, <2>2, <2>3, <2>4, QuietOther
<1>2. NetType'
  <2>1. CASE FEPushes
    BY <2>1 DEF NetType, FEPushes
  <2>2. CASE ~FEPushes
    BY <2>2 DEF NetType, netVars, TimelineLook, TimelineLock, TimelineDraw, FEAnswers, FECloses
  <2> QED BY <2>1, <2>2
<1>3. TextType'
    BY DEF TextType, textVars, TimelineLook, TimelineLock, TimelineDraw, FEAnswers, FEPushes,
       FECloses
<1>4. DrawType'
    BY DEF DrawType, drawVars, ListType, TimelineLook, TimelineLock, TimelineDraw, FEAnswers,
       FEPushes, FECloses
<1>5. ListType'
    BY DEF ListType, TimelineLook, TimelineLock, TimelineDraw, FEAnswers, FEPushes, FECloses
<1> QED BY <1>1, <1>2, <1>3, <1>4, <1>5 DEF OtherTypes

-----------------------------------------------------------------------------
LEMMA ClientInit == Init => IInv
<1> SUFFICES ASSUME Init PROVE IInv
    OBVIOUS
<1>1. PcType /\ NetType /\ TextType /\ ListType /\ DrawType
  <2>1. PcType /\ DrawType
    BY DEF Init, PcType, DrawType
  <2>2. NetType
    <3>1. asked \in BOOLEAN
      BY Zenon DEF Init
    <3> QED BY <3>1 DEF Init, NetType
  <2>3. ListType
    BY DEF Init, ListType
  <2>4. TextType
    <3>1. isFull \in BOOLEAN /\ ~isFull
      BY Zenon DEF Init
    <3> QED BY <3>1, ClientAssumption DEF Init, TextType
  <2> QED BY <2>1, <2>2, <2>3, <2>4
<1>2. SayType
  <2>1. Silent \in [msg : Messages \cup {None}, seen : Seq(Messages),
                    then : {"draw", "end", "read", "kill", "gone"}]
    BY DEF Silent
  <2> QED BY <2>1 DEF Init, SayType
<1>3. \A t \in Speaker : pc[t] \in Apart /\ said[t] = 0
    BY DEF Init, Speaker, Apart
<1>4. SayInv
    BY <1>3 DEF Init, SayInv, Adding, Apart
<1>5. \A t \in Speaker : Made(t) = 0
    BY <1>3 DEF Made, Adding, Apart
<1>6. MessagesKept
    BY <1>5 DEF Init, MessagesKept
<1> QED BY <1>1, <1>2, <1>4, <1>6 DEF IInv, Types

LEMMA ClientNext == IInv /\ [Next]_vars => IInv'
<1> SUFFICES ASSUME IInv, [Next]_vars PROVE IInv'
    OBVIOUS
<1>1. CASE UNCHANGED vars
    BY <1>1 DEF vars, netVars, textVars, listVars, drawVars, IInv, Types, PcType, NetType,
       TextType, ListType, DrawType, SayType, SayInv, MessagesKept, Made, Adding, Running
<1>2. CASE Next
  <2>1. Running
    BY <1>2 DEF Next
  <2>2. ASSUME Quietly \/ Ended, OtherTypes' PROVE IInv'
    <3>1. SayType'
      BY <2>2 DEF Quietly, Ended, IInv, Types, SayType
    <3> QED BY <2>1, <2>2, <3>1, QuietlyDoes, EndedDoes DEF OtherTypes, IInv, Types
  <2>3. ASSUME NEW t \in Speaker, Says(t), OtherTypes' PROVE IInv'
    BY <2>1, <2>3, SayingDoes DEF OtherTypes, IInv, Types
  <2>4. ASSUME NEW t \in Speaker, AddMessage(t) PROVE IInv'
    BY <2>1, <2>4, SeeingDoes, LinkingDoes DEF AddMessage
  <2>5. CASE BadHandle \/ UIStart \/ ConnectFails \/ Connect \/ UIEnd \/ SendLogin
               \/ AnswerFails \/ LoggedIn \/ Refused
    BY <2>1, <2>2, <2>3, <2>5, LoginSteps DEF Speaker
  <2>6. CASE DrawLock \/ DrawChatbox \/ Key \/ WriteText
    BY <2>1, <2>2, <2>3, <2>6, TextSteps DEF Speaker
  <2>7. CASE ReadPush \/ ReadFails \/ ReadEnd \/ Interrupt
    BY <2>1, <2>2, <2>3, <2>7, ReaderSteps DEF Speaker
  <2>8. CASE Timeline \/ Outside
    BY <2>1, <2>2, <2>8, OtherSteps
  <2> QED BY <1>2, <2>4, <2>5, <2>6, <2>7, <2>8 DEF Next, Main, Reader, Speaker
<1> QED BY <1>1, <1>2

-----------------------------------------------------------------------------
(* The timeline.  Its loop goes over a list of any length: what it leaves   *)
(* before a message is found by looking for the first for which it is not.  *)

LEMMA LeastNatural ==
    ASSUME NEW T, T \subseteq Nat, T # {}
    PROVE  \E k \in T : \A i \in T : k <= i
<1> DEFINE R == OpToRel(<, Nat)
<1>1. IsWellFoundedOn(R, Nat)
    BY NatLessThanWellFounded
<1>2. \A i, k \in Nat : i < k => <<i, k>> \in R
    BY DEF OpToRel
<1> HIDE DEF R
<1>3. PICK k \in T : \A i \in T : <<i, k>> \notin R
    BY <1>1, WFMin
<1>4. ASSUME NEW i \in T PROVE k <= i
  <2>1. ~(i < k) /\ i \in Nat /\ k \in Nat
    BY <1>2, <1>3
  <2> QED BY <2>1
<1> QED BY <1>4

\* One more line of the table that LinesLeft fills.
Fills(left, msgs, n) ==
    left = [i \in 1 .. n |->
               IF i = 1 THEN CHATBOX_START_Y - 3 ELSE left[i - 1] - Height(msgs[i - 1])]

LEMMA HeightOf == \A m : Height(m) \in {3, 5}
    BY DEF Height

LEMMA Screen == CHATBOX_START_Y \in Int /\ TimelineHeight = CHATBOX_START_Y
    BY ClientAssumption DEF CHATBOX_START_Y, TimelineHeight, CHATBOX_HEIGHT

LEMMA CanBeFilled ==
    ASSUME NEW msgs, NEW n \in Nat
    PROVE  \E left : Fills(left, msgs, n)
<1> DEFINE T == {k \in Nat : ~\E left : Fills(left, msgs, k)}
<1>1. SUFFICES ASSUME T # {} PROVE FALSE
    OBVIOUS
<1>2. PICK k \in T : \A i \in T : k <= i
    BY <1>1, LeastNatural
<1>3. k # 0
  <2>1. Fills([i \in 1 .. 0 |-> 0], msgs, 0)
    BY DEF Fills
  <2> QED BY <1>2, <2>1
<1>4. k - 1 \in Nat /\ k - 1 \notin T
    BY <1>2, <1>3
<1>5. PICK g : Fills(g, msgs, k - 1)
    BY <1>4
<1> DEFINE f == [i \in 1 .. k |-> IF i = 1 THEN CHATBOX_START_Y - 3
                                  ELSE g[i - 1] - Height(msgs[i - 1])]
<1>6. \A i \in 1 .. k - 1 : f[i] = g[i]
    BY <1>5 DEF Fills
<1>7. f = [i \in 1 .. k |-> IF i = 1 THEN CHATBOX_START_Y - 3
                            ELSE f[i - 1] - Height(msgs[i - 1])]
  <2>1. \A i \in 1 .. k : i # 1 => i - 1 \in 1 .. k - 1
    OBVIOUS
  <2>2. \A i \in 1 .. k : i # 1 => f[i - 1] = g[i - 1]
    BY <1>6, <2>1
  <2>3. \A i \in 1 .. k : f[i] = IF i = 1 THEN CHATBOX_START_Y - 3
                                 ELSE f[i - 1] - Height(msgs[i - 1])
    BY <2>2
  <2> HIDE DEF f
  <2>4. f = [i \in 1 .. k |-> f[i]]
    BY DEF f
  <2> QED BY <2>3, <2>4
<1> HIDE DEF f
<1>8. Fills(f, msgs, k)
    BY <1>7 DEF Fills
<1> QED BY <1>2, <1>8

(***************************************************************************)
(* What LinesLeft computes: less from message to message, by the lines of  *)
(* the one before.                                                         *)
(***************************************************************************)
LEMMA LinesLeftDoes ==
    ASSUME NEW msgs, Len(msgs) \in Nat
    PROVE  LET left == LinesLeft(msgs) IN
           /\ \A i \in 1 .. Len(msgs) : left[i] \in Int /\ left[i] <= CHATBOX_START_Y - 3
           /\ Len(msgs) > 0 => left[1] = CHATBOX_START_Y - 3
           /\ \A i \in 2 .. Len(msgs) : left[i] = left[i - 1] - Height(msgs[i - 1])
<1> DEFINE left == LinesLeft(msgs)  n == Len(msgs)
<1>1. left = [i \in 1 .. n |->
                 IF i = 1 THEN CHATBOX_START_Y - 3 ELSE left[i - 1] - Height(msgs[i - 1])]
  <2>1. PICK f : f = [i \in 1 .. n |->
                 IF i = 1 THEN CHATBOX_START_Y - 3 ELSE f[i - 1] - Height(msgs[i - 1])]
    BY CanBeFilled DEF Fills
  <2> QED BY <2>1 DEF LinesLeft
<1> HIDE DEF left
<1>2. n > 0 => left[1] = CHATBOX_START_Y - 3
    BY <1>1
<1>3. \A i \in 2 .. n : left[i] = left[i - 1] - Height(msgs[i - 1])
    BY <1>1
<1>4. ASSUME NEW j \in 1 .. n, ~(left[j] \in Int /\ left[j] <= CHATBOX_START_Y - 3)
      PROVE  FALSE
  <2> DEFINE T == {i \in 1 .. n : ~(left[i] \in Int /\ left[i] <= CHATBOX_START_Y - 3)}
  <2>1. T \subseteq Nat /\ T # {}
    BY <1>4
  <2>2. PICK k \in T : \A i \in T : k <= i
    BY <2>1, LeastNatural
  <2>3. k # 1
    BY <1>2, <2>2, Screen
  <2>4. k \in 2 .. n /\ k - 1 \in 1 .. n /\ k - 1 \notin T
    BY <2>2, <2>3
  <2>5. left[k] = left[k - 1] - Height(msgs[k - 1])
    BY <1>3, <2>4
  <2>6. left[k - 1] \in Int /\ left[k - 1] <= CHATBOX_START_Y - 3
    BY <2>4
  <2>7. left[k] \in Int /\ left[k] <= CHATBOX_START_Y - 3
    BY <2>5, <2>6, HeightOf, Screen
  <2> QED BY <2>2, <2>7
<1> QED BY <1>2, <1>3, <1>4 DEF left

\* The messages that are drawn are the first ones.
LEMMA FirstAreShown ==
    ASSUME NEW n \in Nat, NEW left, \A i \in 1 .. n : left[i] \in Int
    PROVE  \E k \in 0 .. n :
              /\ {i \in 1 .. n : \A j \in 1 .. i : left[j] > 5} = 1 .. k
              /\ k < n => left[k + 1] <= 5
<1> DEFINE T == {i \in 1 .. n : left[i] <= 5}
<1>1. CASE T = {}
  <2>1. \A i \in 1 .. n : left[i] > 5
    BY <1>1
  <2> QED BY <2>1
<1>2. CASE T # {}
  <2>0. T \subseteq Nat
    OBVIOUS
  <2>1. PICK t \in T : \A i \in T : t <= i
    <3> HIDE DEF T
    <3> QED BY <1>2, <2>0, LeastNatural
  <2>2. t - 1 \in 0 .. n /\ left[t] <= 5 /\ t \in 1 .. n
    BY <2>1
  <2>3. \A j \in 1 .. t - 1 : left[j] > 5
    BY <2>1
  <2>4. {i \in 1 .. n : \A j \in 1 .. i : left[j] > 5} = 1 .. t - 1
    <3>1. \A i \in 1 .. n : (\A j \in 1 .. i : left[j] > 5) <=> i \in 1 .. t - 1
      BY <2>2, <2>3
    <3> QED BY <2>2, <3>1
  <2> QED BY <2>2, <2>4
<1> QED BY <1>1, <1>2

(***************************************************************************)
(* What is drawn of any list of messages, on a screen of any height.       *)
(***************************************************************************)
Shows(msgs, rows) ==
    /\ Len(rows) <= Len(msgs)
    /\ \A i \in DOMAIN rows :
        /\ rows[i].msg = msgs[i]
        /\ rows[i].row \in 2 .. TimelineHeight - 3
        /\ i > 1 => rows[i].row >= rows[i - 1].row + 2
    /\ Len(rows) < Len(msgs) =>
        LET last == rows[Len(rows)]
        IN  IF rows = <<>> THEN TimelineHeight <= 8
            ELSE last.row + Height(last.msg) + 5 >= TimelineHeight

LEMMA LayoutShows ==
    ASSUME NEW msgs \in Seq(Messages)
    PROVE  Shows(msgs, Layout(msgs))
<1> DEFINE n == Len(msgs)
<1>1. n \in Nat /\ DOMAIN msgs = 1 .. n
    BY LenProperties
<1>2. PICK left : left = LinesLeft(msgs)
    OBVIOUS
<1>3. /\ \A i \in 1 .. n : left[i] \in Int /\ left[i] <= CHATBOX_START_Y - 3
      /\ n > 0 => left[1] = CHATBOX_START_Y - 3
      /\ \A i \in 2 .. n : left[i] = left[i - 1] - Height(msgs[i - 1])
    BY <1>1, <1>2, LinesLeftDoes
<1>4. PICK k \in 0 .. n :
              /\ {i \in 1 .. n : \A j \in 1 .. i : left[j] > 5} = 1 .. k
              /\ k < n => left[k + 1] <= 5
    BY <1>1, <1>3, FirstAreShown
<1>5. PICK rows : rows = Layout(msgs)
    OBVIOUS
<1>6. rows = [i \in 1 .. k |-> [msg |-> msgs[i], row |-> CHATBOX_START_Y - left[i]]]
    BY <1>1, <1>2, <1>4, <1>5 DEF Layout, Rows
<1>7. \A i \in 1 .. k : rows[i].msg = msgs[i] /\ rows[i].row = CHATBOX_START_Y - left[i]
    BY <1>6
<1>8. Len(rows) = k /\ DOMAIN rows = 1 .. k /\ (rows = <<>> <=> k = 0)
  <2> DEFINE S == {rows[i] : i \in 1 .. k}
  <2>1. k \in Nat /\ rows \in [1 .. k -> S] /\ DOMAIN rows = 1 .. k
    BY <1>6
  <2>2. rows \in Seq(S)
    <3> HIDE DEF S
    <3> QED BY <2>1
  <2> QED BY <2>1, <2>2, LenProperties
<1>9. \A i \in 1 .. k : left[i] > 5
    BY <1>1, <1>4
<1>10. ASSUME NEW i \in 1 .. k PROVE rows[i].row \in 2 .. TimelineHeight - 3
  <2>1. left[i] \in Int /\ left[i] <= CHATBOX_START_Y - 3 /\ left[i] > 5
    BY <1>1, <1>3, <1>9
  <2>2. rows[i].row = CHATBOX_START_Y - left[i]
    BY <1>7
  <2> QED BY <2>1, <2>2, Screen
<1>11. ASSUME NEW i \in 1 .. k, i > 1 PROVE rows[i].row >= rows[i - 1].row + 2
  <2>1. i \in 2 .. n /\ i - 1 \in 1 .. k /\ i - 1 \in 1 .. n
    BY <1>1, <1>11
  <2>2. left[i] = left[i - 1] - Height(msgs[i - 1]) /\ left[i - 1] \in Int
    BY <1>3, <2>1
  <2>3. rows[i].row = CHATBOX_START_Y - left[i] /\ rows[i - 1].row = CHATBOX_START_Y - left[i - 1]
    BY <1>7, <2>1
  <2> QED BY <2>2, <2>3, HeightOf, Screen
<1>12. ASSUME k < n PROVE IF k = 0 THEN TimelineHeight <= 8
                          ELSE rows[k].row + Height(rows[k].msg) + 5 >= TimelineHeight
  <2>1. left[k + 1] <= 5
    BY <1>4, <1>12
  <2>2. CASE k = 0
    BY <1>1, <1>3, <1>12, <2>1, <2>2, Screen
  <2>3. CASE k # 0
    <3>1. k \in 1 .. k /\ k \in 1 .. n /\ k + 1 \in 2 .. n /\ (k + 1) - 1 = k
      BY <1>1, <1>12, <2>3
    <3>2. left[k + 1] = left[k] - Height(msgs[k]) /\ left[k] \in Int
      BY <1>3, <3>1
    <3>3. rows[k].row = CHATBOX_START_Y - left[k] /\ rows[k].msg = msgs[k]
      BY <1>7, <3>1
    <3>4. Height(msgs[k]) \in Int
      BY HeightOf
    <3> QED BY <2>1, <2>3, <3>2, <3>3, <3>4, Screen
  <2> QED BY <2>2, <2>3
<1>13. k <= n
    BY <1>1
<1>14. Shows(msgs, rows)
    BY <1>7, <1>8, <1>10, <1>11, <1>12, <1>13 DEF Shows
<1> QED BY <1>5, <1>14

-----------------------------------------------------------------------------
\* The timeline is not touched, unless it ends with the process.
Undrawn ==
    /\ UNCHANGED <<old, drawn>>
    /\ pc'.timeline \in {pc.timeline, "none"}
    /\ pc'.main = "start" => pc.main = "start"

LEMMA UndrawnDoes == DrawnInv /\ Undrawn => DrawnInv'
    BY DEF DrawnInv, Undrawn

LEMMA DrawnNext ==
    ASSUME IInv, DrawnInv, [Next]_vars
    PROVE  DrawnInv'
<1> USE DEF IInv, Types, PcType, Goto, Gone, Say, Ended, Apart
<1>1. CASE UNCHANGED vars
    BY <1>1 DEF vars, drawVars, DrawnInv, Undrawn
<1>2. CASE BadHandle \/ ConnectFails \/ Connect \/ UIEnd \/ SendLogin \/ AnswerFails
           \/ LoggedIn \/ Refused
  <2>1. CASE BadHandle \/ ConnectFails \/ Connect \/ UIEnd
    BY <2>1, UndrawnDoes DEF BadHandle, ConnectFails, Connect, UIEnd, drawVars, Undrawn
  <2>2. CASE SendLogin
    BY <2>2, UndrawnDoes DEF SendLogin, drawVars, Undrawn
  <2>3. CASE AnswerFails \/ LoggedIn \/ Refused
    BY <2>3, UndrawnDoes DEF AnswerFails, LoggedIn, Refused, drawVars, Undrawn
  <2> QED BY <1>2, <2>1, <2>2, <2>3
<1>3. CASE UIStart
    BY <1>3 DEF UIStart, drawVars, DrawnInv
<1>4. CASE DrawLock \/ DrawChatbox \/ WriteText \/ Key
  <2>1. Undrawn
    BY <1>4 DEF DrawLock, DrawChatbox, WriteText, Key, KeyPressed, Backspace, Character,
       EnterUnknown, EnterCommand, drawVars, Undrawn
  <2> QED BY <2>1, UndrawnDoes
<1>5. ASSUME NEW t \in Speaker, AddMessage(t) PROVE DrawnInv'
  <2>1. CASE AddSee(t)
    <3>1. Undrawn
      BY <1>5, <2>1 DEF AddSee, drawVars, Undrawn, Speaker
    <3> QED BY <3>1, UndrawnDoes
  <2>2. CASE AddLink(t)
    <3>1. t = "main" => say.main.then \in {"draw", "end"}
      BY <2>2 DEF AddLink, SayInv
    <3>2. Undrawn
      BY <1>5, <2>2, <3>1 DEF AddLink, drawVars, Undrawn, Speaker
    <3> QED BY <3>2, UndrawnDoes
  <2> QED BY <1>5, <2>1, <2>2 DEF AddMessage
<1>6. CASE ReadPush \/ ReadFails \/ ReadEnd \/ Interrupt
  <2>1. Undrawn
    BY <1>6 DEF ReadPush, ReadFails, ReadEnd, Interrupt, drawVars, Undrawn
  <2> QED BY <2>1, UndrawnDoes
<1>7. CASE Outside
  <2>1. Undrawn
    BY <1>7 DEF Outside, FEAnswers, FEPushes, FECloses, drawVars, Undrawn
  <2> QED BY <2>1, UndrawnDoes
<1>8. CASE TimelineLook \/ TimelineLock
    BY <1>8 DEF TimelineLook, TimelineLock, DrawnInv
<1>9. CASE TimelineDraw
    BY <1>9 DEF TimelineDraw, DrawnInv
<1>10. Running /\ [Next]_vars =>
          \/ BadHandle \/ ConnectFails \/ Connect \/ UIEnd \/ SendLogin \/ AnswerFails
          \/ LoggedIn \/ Refused \/ UIStart \/ DrawLock \/ DrawChatbox \/ WriteText \/ Key
          \/ AddMessage("main") \/ AddMessage("reader") \/ Outside \/ UNCHANGED vars
          \/ ReadPush \/ ReadFails \/ ReadEnd \/ Interrupt
          \/ TimelineLook \/ TimelineLock \/ TimelineDraw
    BY DEF Next, Main, Reader, Timeline
<1>11. Running \/ UNCHANGED vars
    BY DEF Next
<1>12. "main" \in Speaker /\ "reader" \in Speaker
    BY DEF Speaker
<1> QED BY <1>1, <1>2, <1>3, <1>4, <1>5, <1>6, <1>7, <1>8, <1>9, <1>10, <1>11, <1>12

(***************************************************************************)
(* The types; with them, that the line typed is full exactly when it has   *)
(* all the characters it may have (UI_get_text).                           *)
(***************************************************************************)
THEOREM ClientTypes == Spec => []TypeOK
<1>1. IInv => TypeOK
    BY TypeParts DEF IInv, Types
<1> QED BY ClientInit, ClientNext, <1>1, PTL DEF Spec

(***************************************************************************)
(* UI_add_new_message: with both threads adding to the list and the        *)
(* timeline reading it, every message is in it once, each thread's in the  *)
(* order it made them.                                                     *)
(***************************************************************************)
THEOREM NothingGetsLost == Spec => []MessagesKept
<1>1. IInv => MessagesKept
    BY DEF IInv
<1> QED BY ClientInit, ClientNext, <1>1, PTL DEF Spec

(***************************************************************************)
(* update_timeline, on a terminal of any height: what has been drawn are   *)
(* the newest messages, without a gap, none on another's lines, on the     *)
(* border or in the chat box; one is left out only when the lines of the   *)
(* largest would not remain below the others.                              *)
(***************************************************************************)
THEOREM NewestAreDrawn == Spec => []TimelineShowsNewest
<1>1. Init => DrawnInv
    BY DEF Init, DrawnInv
<1>2. IInv /\ DrawnInv => TimelineShowsNewest
  <2> SUFFICES ASSUME IInv, DrawnInv, pc.timeline = "sleep", old # <<>>
               PROVE  Shows(old, drawn)
    BY DEF TimelineShowsNewest, Shows
  <2>1. old \in Seq(Messages) /\ drawn = Layout(old)
    BY DEF IInv, Types, DrawType, DrawnInv
  <2> QED BY <2>1, LayoutShows
<1> QED BY ClientInit, ClientNext, DrawnNext, <1>1, <1>2, PTL DEF Spec

=============================================================================
