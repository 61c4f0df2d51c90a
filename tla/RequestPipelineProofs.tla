------------------------ MODULE RequestPipelineProofs ------------------------
(***************************************************************************)
(* What the log says of a request, what its response says, and what a      *)
(* readiness answer means, for any number of requests and probes, whose    *)
(* ids may be the client's and equal.  None of the three is inductive: the *)
(* record a task will write depends on what its context holds by then, on  *)
(* what it wrote before, and on what its probes saw on the way.            *)
(***************************************************************************)
EXTENDS RequestPipeline, SequenceTheorems, TLAPS

AnyId   == ClientIds \cup Tasks \cup {NoId}
Codes   == {0, 200, 404, 405, 422, 500, 503}
Events  == {"app_error", "request", "unhandled_error", "served", "failed"}
Records == [event : Events, id : AnyId, status : Codes]
Answers == [status : Codes, id : AnyId]

\* Every variable holds a value of its kind.
Typed ==
    /\ up \in SUBSET Stores
    /\ pc \in [Tasks -> {"idle", "endpoint", "postgresUp", "postgresDown", "replied", "raised",
                         "logged", "handled", "answered", "done"}]
    /\ id \in [Tasks -> AnyId] /\ outer \in [Tasks -> AnyId] /\ inner \in [Tasks -> AnyId]
    /\ status \in [Tasks -> Codes]
    /\ lines \in [Tasks -> Seq(Records)]
    /\ answer \in [Tasks -> Answers]
    /\ wasUp \in [Probes -> SUBSET Stores] /\ wasDown \in [Probes -> SUBSET Stores]

\* The tasks within RequestIdMiddleware know the id of their own request, and
\* once that is left the server's task knows none.  A response on its way out
\* is none of the outermost handler's.
Known(t) ==
    /\ pc[t] # "idle" => inner[t] = id[t]
    /\ pc[t] \in {"handled", "answered", "done"} => outer[t] = NoId
    /\ pc[t] \in {"replied", "logged"} => status[t] \in {200, 404, 405, 422, 503}
    /\ pc[t] \in {"handled", "answered"} => status[t] = 500

Record(event, i, code) == [event |-> event, id |-> i, status |-> code]

Refusal(t)      == Record("app_error", id[t], 404)
Access(t, code) == Record("request", id[t], code)
Served(code)    == Record("served", NoId, code)
Unhandled       == Record("unhandled_error", NoId, 500)
Failed          == Record("failed", NoId, 500)

\* What the log holds of t at each point of its way.
Logged(t) ==
    /\ pc[t] \in {"idle", "endpoint", "postgresUp", "postgresDown", "raised"} => lines[t] = <<>>
    /\ pc[t] = "replied" =>
        \/ lines[t] = <<>>
        \/ lines[t] = <<Refusal(t)>> /\ status[t] = 404
    /\ pc[t] = "logged" =>
        \/ lines[t] = <<Access(t, status[t])>>
        \/ lines[t] = <<Refusal(t), Access(t, 404)>> /\ status[t] = 404
    /\ pc[t] = "handled" => lines[t] = <<Unhandled>>
    /\ pc[t] = "answered" => lines[t] = <<Unhandled, Served(500)>>

\* What the client of t was told, and what the log holds in the end.
Told(t) ==
    /\ pc[t] \notin {"answered", "done"} => answer[t] = None
    /\ pc[t] = "answered" => answer[t] = [status |-> 500, id |-> NoId]
    /\ pc[t] = "done" =>
        \/ /\ answer[t] = [status |-> 500, id |-> NoId]
           /\ lines[t] = <<Unhandled, Served(500), Failed>>
        \/ /\ answer[t].status \in {200, 404, 405, 422, 503} /\ answer[t].id = id[t]
           /\ \/ lines[t] = <<Access(t, answer[t].status), Served(answer[t].status)>>
              \/ /\ lines[t] = <<Refusal(t), Access(t, 404), Served(404)>>
                 /\ answer[t].status = 404

\* A probe's answer is borne out by what the stores did since it began.
Honest(t, code) ==
    \/ code = 200 /\ wasUp[t] = Stores
    \/ code = 503 /\ wasDown[t] # {}

\* What a probe found so far was so at some time since it began.
Probed(t) ==
    /\ pc[t] \notin {"raised", "handled", "answered"}
    /\ pc[t] \notin {"idle", "done"} => up \subseteq wasUp[t] /\ Stores \ up \subseteq wasDown[t]
    /\ pc[t] = "postgresUp" => "postgres" \in wasUp[t]
    /\ pc[t] = "postgresDown" => "postgres" \in wasDown[t]
    /\ pc[t] \in {"replied", "logged"} => Honest(t, status[t])
    /\ pc[t] = "done" => Honest(t, answer[t].status)

\* The inductive invariant.
IInv ==
    /\ Typed
    /\ \A t \in Tasks : Known(t) /\ Logged(t) /\ Told(t)
    /\ \A t \in Probes : Probed(t)

-----------------------------------------------------------------------------
LEMMA InitIInv == Init => IInv
<1> SUFFICES ASSUME Init
             PROVE  IInv
  OBVIOUS
<1>1. \A t \in Tasks : lines[t] = <<>> /\ pc[t] = "idle" /\ answer[t] = None
  BY DEF Init
<1>2. Typed
  BY DEF Init, Typed, AnyId, Codes, Answers, None, Stores
<1>3. \A t \in Tasks : Known(t) /\ Logged(t) /\ Told(t)
  BY <1>1 DEF Known, Logged, Told
<1>4. \A t \in Probes : Probed(t)
  BY <1>1 DEF Probed, Tasks
<1> QED
  BY <1>2, <1>3, <1>4 DEF IInv

\* A record is added at the end of the log of its request.
LEMMA LogAppends ==
    ASSUME Typed, NEW t \in Tasks, NEW event \in Events, NEW ctx \in AnyId,
           status'[t] \in Codes, Log(t, event, ctx)
    PROVE  /\ lines' \in [Tasks -> Seq(Records)]
           /\ lines'[t] = Append(lines[t], Record(event, ctx, status'[t]))
           /\ \A u \in Tasks \ {t} : lines'[u] = lines[u]
<1>1. Record(event, ctx, status'[t]) \in Records
  BY DEF Records, Record
<1>2. lines \in [Tasks -> Seq(Records)] /\ lines[t] \in Seq(Records)
  BY DEF Typed
<1>3. lines' = [lines EXCEPT ![t] = Append(lines[t], Record(event, ctx, status'[t]))]
  BY DEF Log, Record
<1>4. Append(lines[t], Record(event, ctx, status'[t])) \in Seq(Records)
  BY <1>1, <1>2
<1> QED
  BY <1>2, <1>3, <1>4

\* A second and a third record after the first.
LEMMA AppendSecond ==
    ASSUME NEW a, NEW b
    PROVE  Append(<<a>>, b) = <<a, b>>
<1> DEFINE s == Append(<<a>>, b)
           t == <<a, b>>
<1>1. <<a>> \in Seq({a, b}) /\ t \in Seq({a, b}) /\ b \in {a, b}
  OBVIOUS
<1>2. s \in Seq({a, b}) /\ Len(s) = 2 /\ Len(t) = 2
  BY <1>1
<1>3. s[1] = t[1] /\ s[2] = t[2]
  BY <1>1
<1> HIDE DEF s, t
<1>4. \A i \in 1 .. Len(s) : s[i] = t[i]
  BY <1>2, <1>3
<1>5. s = t
  BY <1>1, <1>2, <1>4, SeqEqual
<1> QED
  BY <1>5 DEF s, t

LEMMA AppendThird ==
    ASSUME NEW a, NEW b, NEW c
    PROVE  Append(<<a, b>>, c) = <<a, b, c>>
<1> DEFINE s == Append(<<a, b>>, c)
           t == <<a, b, c>>
<1>1. <<a, b>> \in Seq({a, b, c}) /\ t \in Seq({a, b, c}) /\ c \in {a, b, c}
  OBVIOUS
<1>2. s \in Seq({a, b, c}) /\ Len(s) = 3 /\ Len(t) = 3
  BY <1>1
<1>3. s[1] = t[1] /\ s[2] = t[2] /\ s[3] = t[3]
  BY <1>1
<1> HIDE DEF s, t
<1>4. \A i \in 1 .. Len(s) : s[i] = t[i]
  BY <1>2, <1>3
<1>5. s = t
  BY <1>1, <1>2, <1>4, SeqEqual
<1> QED
  BY <1>5 DEF s, t

\* A step of t leaves the other requests alone.
LEMMA OthersKept ==
    ASSUME IInv, NEW t \in Tasks, UNCHANGED up,
           \A u \in Tasks \ {t} :
               /\ pc'[u] = pc[u] /\ id'[u] = id[u] /\ inner'[u] = inner[u]
               /\ outer'[u] = outer[u] /\ status'[u] = status[u] /\ lines'[u] = lines[u]
               /\ answer'[u] = answer[u],
           \A u \in Probes \ {t} : wasUp'[u] = wasUp[u] /\ wasDown'[u] = wasDown[u],
           Typed', (Known(t) /\ Logged(t) /\ Told(t))', t \in Probes => Probed(t)'
    PROVE  IInv'
<1>1. ASSUME NEW u \in Tasks \ {t}
      PROVE  Known(u)' /\ Logged(u)' /\ Told(u)'
  BY <1>1 DEF IInv, Known, Logged, Told, Refusal, Access
<1>2. ASSUME NEW u \in Probes \ {t}
      PROVE  Probed(u)'
  BY <1>2 DEF IInv, Probed, Honest, Tasks
<1> QED
  BY <1>1, <1>2 DEF IInv

\* An endpoint that writes no record leaves the log as it was.
LEMMA SilentStep ==
    ASSUME IInv, NEW t \in Tasks, lines'[t] = lines[t], answer'[t] = answer[t],
           pc[t] \in {"endpoint", "postgresUp", "postgresDown"},
           pc'[t] \in {"postgresUp", "postgresDown", "replied", "raised"}
    PROVE  Logged(t)' /\ Told(t)'
BY DEF IInv, Logged, Told

\* Every step of a request or of a store preserves the invariant.
LEMMA NextIInv == IInv /\ [Next]_vars => IInv'
<1> SUFFICES ASSUME IInv, [Next]_vars
             PROVE  IInv'
  OBVIOUS
<1> USE IdsAssumption DEF Tasks, context, history
<1>1. ASSUME NEW t \in Tasks, Receive(t)
      PROVE  IInv'
  <2>1. /\ pc[t] = "idle" /\ pc'[t] = "endpoint" /\ inner'[t] = id'[t]
        /\ up' = up /\ lines'[t] = lines[t] /\ answer'[t] = answer[t]
        /\ t \in Probes => wasUp'[t] = up /\ wasDown'[t] = Stores \ up
    BY <1>1 DEF IInv, Typed, Receive, Ids, Goto
  <2>2. Typed'
    BY <1>1, <2>1 DEF IInv, Typed, AnyId, Receive, Ids, Goto
  <2>3. Known(t)'
    BY <2>1 DEF IInv, Known
  <2>4. Logged(t)' /\ Told(t)'
    BY <2>1 DEF IInv, Logged, Told
  <2>5. t \in Probes => Probed(t)'
    BY <2>1 DEF IInv, Probed, Honest, Stores
  <2>6. \A u \in Tasks \ {t} :
            /\ pc'[u] = pc[u] /\ id'[u] = id[u] /\ inner'[u] = inner[u]
            /\ outer'[u] = outer[u] /\ status'[u] = status[u] /\ lines'[u] = lines[u]
            /\ answer'[u] = answer[u]
    BY <1>1 DEF IInv, Typed, Receive, Ids, Goto
  <2>7. up' = up /\ \A u \in Probes \ {t} : wasUp'[u] = wasUp[u] /\ wasDown'[u] = wasDown[u]
    BY <1>1 DEF IInv, Typed, Receive, Ids, Goto
  <2> QED
    BY <2>2, <2>3, <2>4, <2>5, <2>6, <2>7, OthersKept
<1>2. ASSUME NEW t \in Tasks, LogAccess(t)
      PROVE  IInv'
  <2>1. /\ pc[t] = "replied" /\ pc'[t] = "logged" /\ inner[t] = id[t] /\ inner'[t] = inner[t]
        /\ id'[t] = id[t] /\ status'[t] = status[t] /\ answer'[t] = answer[t]
        /\ up' = up /\ wasUp' = wasUp /\ wasDown' = wasDown
    BY <1>2 DEF IInv, Typed, Known, LogAccess, Goto
  <2>2. inner[t] \in AnyId /\ status'[t] \in Codes /\ Log(t, "request", inner[t])
    BY <1>2, <2>1 DEF IInv, Typed, AnyId, Codes, LogAccess, Goto
  <2>3. /\ lines' \in [Tasks -> Seq(Records)]
        /\ lines'[t] = Append(lines[t], Record("request", inner[t], status'[t]))
        /\ \A u \in Tasks \ {t} : lines'[u] = lines[u]
    BY <2>2, LogAppends DEF IInv, Events
  <2>4. Typed'
    BY <1>2, <2>1, <2>3 DEF IInv, Typed, AnyId, Answers, Codes, LogAccess, Goto
  <2>5. Known(t)'
    BY <2>1 DEF IInv, Known
  <2>6. Logged(t)'
    <3>1. \/ lines[t] = <<>>
          \/ lines[t] = <<Refusal(t)>> /\ status[t] = 404
      BY <2>1 DEF IInv, Logged
    <3>2. lines'[t] = Append(lines[t], Access(t, status[t])) /\ Access(t, status[t])' = Access(t, status[t])
      BY <2>1, <2>3 DEF Access, Record
    <3>3. CASE lines[t] = <<>>
      <4>1. lines'[t] = <<Access(t, status[t])>>
        BY <3>2, <3>3
      <4> QED
        BY <2>1, <3>2, <4>1 DEF Logged, Access
    <3>4. CASE lines[t] = <<Refusal(t)>> /\ status[t] = 404
      <4>1. lines'[t] = <<Refusal(t), Access(t, 404)>>
        BY <3>2, <3>4, AppendSecond
      <4> QED
        BY <2>1, <3>4, <4>1 DEF Logged, Access, Refusal
    <3> QED
      BY <3>1, <3>3, <3>4
  <2>7. Told(t)'
    BY <2>1 DEF IInv, Told
  <2>8. t \in Probes => Probed(t)'
    BY <2>1 DEF IInv, Probed, Honest, Stores
  <2>9. \A u \in Tasks \ {t} :
            /\ pc'[u] = pc[u] /\ id'[u] = id[u] /\ inner'[u] = inner[u]
            /\ outer'[u] = outer[u] /\ status'[u] = status[u] /\ lines'[u] = lines[u]
            /\ answer'[u] = answer[u]
    BY <1>2, <2>3 DEF IInv, Typed, LogAccess, Goto
  <2>10. up' = up /\ \A u \in Probes \ {t} : wasUp'[u] = wasUp[u] /\ wasDown'[u] = wasDown[u]
    BY <1>2 DEF IInv, Typed, LogAccess, Goto
  <2> QED
    BY <2>4, <2>5, <2>6, <2>7, <2>8, <2>9, <2>10, OthersKept
<1>3. ASSUME NEW t \in Tasks, Leave(t)
      PROVE  IInv'
  <2>1. /\ pc[t] = "logged" /\ pc'[t] = "done" /\ inner'[t] = inner[t] /\ id'[t] = id[t]
        /\ outer'[t] = NoId /\ status'[t] = status[t] /\ status[t] \in {200, 404, 405, 422, 503}
        /\ answer'[t] = [status |-> status[t], id |-> id[t]]
        /\ up' = up /\ wasUp' = wasUp /\ wasDown' = wasDown
    BY <1>3 DEF IInv, Typed, Known, Leave, Goto
  <2>2. NoId \in AnyId /\ status'[t] \in Codes /\ Log(t, "served", NoId)
    BY <1>3, <2>1 DEF IInv, Typed, AnyId, Codes, Leave, Goto
  <2>3. /\ lines' \in [Tasks -> Seq(Records)]
        /\ lines'[t] = Append(lines[t], Record("served", NoId, status'[t]))
        /\ \A u \in Tasks \ {t} : lines'[u] = lines[u]
    BY <2>2, LogAppends DEF IInv, Events
  <2>4. Typed'
    BY <1>3, <2>1, <2>3 DEF IInv, Typed, AnyId, Answers, Codes, Leave, Goto
  <2>5. Known(t)'
    BY <2>1 DEF IInv, Known
  <2>6. Logged(t)'
    BY <2>1 DEF Logged
  <2>7. Told(t)'
    <3>1. \/ lines[t] = <<Access(t, status[t])>>
          \/ lines[t] = <<Refusal(t), Access(t, 404)>> /\ status[t] = 404
      BY <2>1 DEF IInv, Logged
    <3>2. lines'[t] = Append(lines[t], Served(status[t]))
      BY <2>1, <2>3 DEF Served
    <3>3. \/ lines'[t] = <<Access(t, status[t]), Served(status[t])>>
          \/ lines'[t] = <<Refusal(t), Access(t, 404), Served(404)>> /\ status[t] = 404
      <4>1. CASE lines[t] = <<Access(t, status[t])>>
        BY <3>2, <4>1, AppendSecond
      <4>2. CASE lines[t] = <<Refusal(t), Access(t, 404)>> /\ status[t] = 404
        <5>1. lines'[t] = Append(<<Refusal(t), Access(t, 404)>>, Served(404))
          BY <3>2, <4>2
        <5> QED
          BY <4>2, <5>1, AppendThird
      <4> QED
        BY <3>1, <4>1, <4>2
    <3> QED
      BY <2>1, <3>3 DEF Told, Access, Refusal
  <2>8. t \in Probes => Probed(t)'
    BY <2>1 DEF IInv, Probed, Honest, Stores
  <2>9. \A u \in Tasks \ {t} :
            /\ pc'[u] = pc[u] /\ id'[u] = id[u] /\ inner'[u] = inner[u]
            /\ outer'[u] = outer[u] /\ status'[u] = status[u] /\ lines'[u] = lines[u]
            /\ answer'[u] = answer[u]
    BY <1>3, <2>3 DEF IInv, Typed, Leave, Goto
  <2>10. up' = up /\ \A u \in Probes \ {t} : wasUp'[u] = wasUp[u] /\ wasDown'[u] = wasDown[u]
    BY <1>3 DEF IInv, Typed, Leave, Goto
  <2> QED
    BY <2>4, <2>5, <2>6, <2>7, <2>8, <2>9, <2>10, OthersKept
<1>4. ASSUME NEW t \in Tasks, Escape(t)
      PROVE  IInv'
  <2>1. /\ pc[t] = "raised" /\ pc'[t] = "handled" /\ inner'[t] = inner[t] /\ id'[t] = id[t]
        /\ outer'[t] = NoId /\ status'[t] = 500 /\ answer'[t] = answer[t]
        /\ up' = up /\ wasUp' = wasUp /\ wasDown' = wasDown
    BY <1>4 DEF IInv, Typed, Known, Escape, Goto
  <2>2. NoId \in AnyId /\ status'[t] \in Codes /\ Log(t, "unhandled_error", NoId)
    BY <1>4, <2>1 DEF IInv, Typed, AnyId, Codes, Escape, Goto
  <2>3. /\ lines' \in [Tasks -> Seq(Records)]
        /\ lines'[t] = Append(lines[t], Record("unhandled_error", NoId, status'[t]))
        /\ \A u \in Tasks \ {t} : lines'[u] = lines[u]
    BY <2>2, LogAppends DEF IInv, Events
  <2>4. Typed'
    BY <1>4, <2>1, <2>3 DEF IInv, Typed, AnyId, Answers, Codes, Escape, Goto
  <2>5. Known(t)'
    BY <2>1 DEF IInv, Known
  <2>6. Logged(t)'
    <3>1. lines[t] = <<>>
      BY <2>1 DEF IInv, Logged
    <3>2. lines'[t] = Append(<<>>, Unhandled)
      BY <2>1, <2>3, <3>1 DEF Unhandled
    <3>3. lines'[t] = <<Unhandled>>
      BY <3>2
    <3> QED
      BY <2>1, <3>3 DEF Logged
  <2>7. Told(t)'
    BY <2>1 DEF IInv, Told
  <2>8. t \in Probes => Probed(t)'
    BY <2>1 DEF IInv, Probed, Honest, Stores
  <2>9. \A u \in Tasks \ {t} :
            /\ pc'[u] = pc[u] /\ id'[u] = id[u] /\ inner'[u] = inner[u]
            /\ outer'[u] = outer[u] /\ status'[u] = status[u] /\ lines'[u] = lines[u]
            /\ answer'[u] = answer[u]
    BY <1>4, <2>3 DEF IInv, Typed, Escape, Goto
  <2>10. up' = up /\ \A u \in Probes \ {t} : wasUp'[u] = wasUp[u] /\ wasDown'[u] = wasDown[u]
    BY <1>4 DEF IInv, Typed, Escape, Goto
  <2> QED
    BY <2>4, <2>5, <2>6, <2>7, <2>8, <2>9, <2>10, OthersKept
<1>5. ASSUME NEW t \in Tasks, AnswerError(t)
      PROVE  IInv'
  <2>1. /\ pc[t] = "handled" /\ pc'[t] = "answered" /\ inner'[t] = inner[t] /\ id'[t] = id[t]
        /\ outer[t] = NoId /\ outer'[t] = NoId /\ status[t] = 500 /\ status'[t] = 500
        /\ answer'[t] = [status |-> 500, id |-> NoId]
        /\ up' = up /\ wasUp' = wasUp /\ wasDown' = wasDown
    BY <1>5 DEF IInv, Typed, Known, AnswerError, Goto
  <2>2. NoId \in AnyId /\ status'[t] \in Codes /\ Log(t, "served", NoId)
    BY <1>5, <2>1 DEF IInv, Typed, AnyId, Codes, AnswerError, Goto
  <2>3. /\ lines' \in [Tasks -> Seq(Records)]
        /\ lines'[t] = Append(lines[t], Record("served", NoId, status'[t]))
        /\ \A u \in Tasks \ {t} : lines'[u] = lines[u]
    BY <2>2, LogAppends DEF IInv, Events
  <2>4. Typed'
    BY <1>5, <2>1, <2>3 DEF IInv, Typed, AnyId, Answers, Codes, AnswerError, Goto
  <2>5. Known(t)'
    BY <2>1 DEF IInv, Known
  <2>6. Logged(t)'
    <3>1. lines[t] = <<Unhandled>>
      BY <2>1 DEF IInv, Logged
    <3>2. lines'[t] = Append(<<Unhandled>>, Served(500))
      BY <2>1, <2>3, <3>1 DEF Served
    <3>3. lines'[t] = <<Unhandled, Served(500)>>
      BY <3>2, AppendSecond
    <3> QED
      BY <2>1, <3>3 DEF Logged
  <2>7. Told(t)'
    BY <2>1 DEF Told
  <2>8. t \in Probes => Probed(t)'
    BY <2>1 DEF IInv, Probed, Honest, Stores
  <2>9. \A u \in Tasks \ {t} :
            /\ pc'[u] = pc[u] /\ id'[u] = id[u] /\ inner'[u] = inner[u]
            /\ outer'[u] = outer[u] /\ status'[u] = status[u] /\ lines'[u] = lines[u]
            /\ answer'[u] = answer[u]
    BY <1>5, <2>3 DEF IInv, Typed, AnswerError, Goto
  <2>10. up' = up /\ \A u \in Probes \ {t} : wasUp'[u] = wasUp[u] /\ wasDown'[u] = wasDown[u]
    BY <1>5 DEF IInv, Typed, AnswerError, Goto
  <2> QED
    BY <2>4, <2>5, <2>6, <2>7, <2>8, <2>9, <2>10, OthersKept
<1>6. ASSUME NEW t \in Tasks, Reraise(t)
      PROVE  IInv'
  <2>1. /\ pc[t] = "answered" /\ pc'[t] = "done" /\ inner'[t] = inner[t] /\ id'[t] = id[t]
        /\ outer[t] = NoId /\ outer'[t] = NoId /\ status[t] = 500 /\ status'[t] = 500
        /\ answer'[t] = answer[t]
        /\ up' = up /\ wasUp' = wasUp /\ wasDown' = wasDown
    BY <1>6 DEF IInv, Typed, Known, Reraise, Goto
  <2>2. NoId \in AnyId /\ status'[t] \in Codes /\ Log(t, "failed", NoId)
    BY <1>6, <2>1 DEF IInv, Typed, AnyId, Codes, Reraise, Goto
  <2>3. /\ lines' \in [Tasks -> Seq(Records)]
        /\ lines'[t] = Append(lines[t], Record("failed", NoId, status'[t]))
        /\ \A u \in Tasks \ {t} : lines'[u] = lines[u]
    BY <2>2, LogAppends DEF IInv, Events
  <2>4. Typed'
    BY <1>6, <2>1, <2>3 DEF IInv, Typed, AnyId, Answers, Codes, Reraise, Goto
  <2>5. Known(t)'
    BY <2>1 DEF IInv, Known
  <2>6. Logged(t)'
    BY <2>1 DEF Logged
  <2>7. Told(t)'
    <3>1. lines[t] = <<Unhandled, Served(500)>> /\ lines'[t] = Append(lines[t], Failed)
      BY <2>1, <2>3 DEF IInv, Logged, Failed
    <3>2. lines'[t] = <<Unhandled, Served(500), Failed>>
      BY <3>1, AppendThird
    <3> QED
      BY <2>1, <3>2 DEF IInv, Told
  <2>8. t \in Probes => Probed(t)'
    BY <2>1 DEF IInv, Probed, Honest, Stores
  <2>9. \A u \in Tasks \ {t} :
            /\ pc'[u] = pc[u] /\ id'[u] = id[u] /\ inner'[u] = inner[u]
            /\ outer'[u] = outer[u] /\ status'[u] = status[u] /\ lines'[u] = lines[u]
            /\ answer'[u] = answer[u]
    BY <1>6, <2>3 DEF IInv, Typed, Reraise, Goto
  <2>10. up' = up /\ \A u \in Probes \ {t} : wasUp'[u] = wasUp[u] /\ wasDown'[u] = wasDown[u]
    BY <1>6 DEF IInv, Typed, Reraise, Goto
  <2> QED
    BY <2>4, <2>5, <2>6, <2>7, <2>8, <2>9, <2>10, OthersKept
<1>7. ASSUME NEW t \in Requests, Refuse(t)
      PROVE  IInv'
  <2>1. /\ pc[t] = "endpoint" /\ pc'[t] = "replied" /\ inner[t] = id[t] /\ inner'[t] = inner[t]
        /\ id'[t] = id[t] /\ status'[t] = 404 /\ answer'[t] = answer[t] /\ up' = up
    BY <1>7 DEF IInv, Typed, Known, Refuse, Reply, Goto
  <2>2. inner[t] \in AnyId /\ status'[t] \in Codes /\ Log(t, "app_error", inner[t])
    BY <1>7, <2>1 DEF IInv, Typed, AnyId, Codes, Refuse, Reply, Goto
  <2>3. /\ lines' \in [Tasks -> Seq(Records)]
        /\ lines'[t] = Append(lines[t], Record("app_error", inner[t], status'[t]))
        /\ \A u \in Tasks \ {t} : lines'[u] = lines[u]
    BY <2>2, LogAppends DEF IInv, Events
  <2>4. Typed'
    BY <1>7, <2>1, <2>3 DEF IInv, Typed, AnyId, Answers, Codes, Refuse, Reply, Goto
  <2>5. Known(t)'
    BY <2>1 DEF IInv, Known
  <2>6. Logged(t)'
    <3>1. lines[t] = <<>>
      BY <2>1 DEF IInv, Logged
    <3>2. lines'[t] = Append(lines[t], Refusal(t)) /\ Refusal(t)' = Refusal(t)
      BY <2>1, <2>3 DEF Refusal
    <3>3. lines'[t] = <<Refusal(t)>>
      BY <3>1, <3>2
    <3> QED
      BY <2>1, <3>2, <3>3 DEF Logged
  <2>7. Told(t)'
    BY <2>1 DEF IInv, Told
  <2>8. t \in Probes => Probed(t)'
    BY <1>7
  <2>9. \A u \in Tasks \ {t} :
            /\ pc'[u] = pc[u] /\ id'[u] = id[u] /\ inner'[u] = inner[u]
            /\ outer'[u] = outer[u] /\ status'[u] = status[u] /\ lines'[u] = lines[u]
            /\ answer'[u] = answer[u]
    BY <1>7, <2>3 DEF IInv, Typed, Refuse, Reply, Goto
  <2>10. up' = up /\ \A u \in Probes \ {t} : wasUp'[u] = wasUp[u] /\ wasDown'[u] = wasDown[u]
    BY <1>7 DEF IInv, Typed, Refuse, Reply, Goto
  <2> QED
    BY <2>4, <2>5, <2>6, <2>7, <2>8, <2>9, <2>10, OthersKept
<1>8. ASSUME NEW t \in Requests, Succeed(t)
      PROVE  IInv'
  <2>1. /\ pc[t] = "endpoint" /\ pc'[t] = "replied" /\ status'[t] \in {200}
        /\ inner'[t] = inner[t] /\ id'[t] = id[t] /\ lines'[t] = lines[t] /\ answer'[t] = answer[t]
    BY <1>8 DEF IInv, Typed, Succeed, Reply, Goto
  <2>2. Typed'
    BY <1>8, <2>1 DEF IInv, Typed, AnyId, Codes, Succeed, Reply, Goto
  <2>3. Known(t)'
    BY <2>1 DEF IInv, Known
  <2>4. Logged(t)' /\ Told(t)'
    BY <2>1, SilentStep
  <2>5. t \in Probes => Probed(t)'
    BY <1>8
  <2>6. \A u \in Tasks \ {t} :
            /\ pc'[u] = pc[u] /\ id'[u] = id[u] /\ inner'[u] = inner[u]
            /\ outer'[u] = outer[u] /\ status'[u] = status[u] /\ lines'[u] = lines[u]
            /\ answer'[u] = answer[u]
    BY <1>8 DEF IInv, Typed, Succeed, Reply, Goto
  <2>7. up' = up /\ \A u \in Probes \ {t} : wasUp'[u] = wasUp[u] /\ wasDown'[u] = wasDown[u]
    BY <1>8 DEF IInv, Typed, Succeed, Reply, Goto
  <2> QED
    BY <2>2, <2>3, <2>4, <2>5, <2>6, <2>7, OthersKept
<1>9. ASSUME NEW t \in Requests, Invalid(t)
      PROVE  IInv'
  <2>1. /\ pc[t] = "endpoint" /\ pc'[t] = "replied" /\ status'[t] \in {422}
        /\ inner'[t] = inner[t] /\ id'[t] = id[t] /\ lines'[t] = lines[t] /\ answer'[t] = answer[t]
    BY <1>9 DEF IInv, Typed, Invalid, Reply, Goto
  <2>2. Typed'
    BY <1>9, <2>1 DEF IInv, Typed, AnyId, Codes, Invalid, Reply, Goto
  <2>3. Known(t)'
    BY <2>1 DEF IInv, Known
  <2>4. Logged(t)' /\ Told(t)'
    BY <2>1, SilentStep
  <2>5. t \in Probes => Probed(t)'
    BY <1>9
  <2>6. \A u \in Tasks \ {t} :
            /\ pc'[u] = pc[u] /\ id'[u] = id[u] /\ inner'[u] = inner[u]
            /\ outer'[u] = outer[u] /\ status'[u] = status[u] /\ lines'[u] = lines[u]
            /\ answer'[u] = answer[u]
    BY <1>9 DEF IInv, Typed, Invalid, Reply, Goto
  <2>7. up' = up /\ \A u \in Probes \ {t} : wasUp'[u] = wasUp[u] /\ wasDown'[u] = wasDown[u]
    BY <1>9 DEF IInv, Typed, Invalid, Reply, Goto
  <2> QED
    BY <2>2, <2>3, <2>4, <2>5, <2>6, <2>7, OthersKept
<1>10. ASSUME NEW t \in Requests, Unrouted(t)
      PROVE  IInv'
  <2>1. /\ pc[t] = "endpoint" /\ pc'[t] = "replied" /\ status'[t] \in {404, 405}
        /\ inner'[t] = inner[t] /\ id'[t] = id[t] /\ lines'[t] = lines[t] /\ answer'[t] = answer[t]
    BY <1>10 DEF IInv, Typed, Unrouted, Reply, Goto
  <2>2. Typed'
    BY <1>10, <2>1 DEF IInv, Typed, AnyId, Codes, Unrouted, Reply, Goto
  <2>3. Known(t)'
    BY <2>1 DEF IInv, Known
  <2>4. Logged(t)' /\ Told(t)'
    BY <2>1, SilentStep
  <2>5. t \in Probes => Probed(t)'
    BY <1>10
  <2>6. \A u \in Tasks \ {t} :
            /\ pc'[u] = pc[u] /\ id'[u] = id[u] /\ inner'[u] = inner[u]
            /\ outer'[u] = outer[u] /\ status'[u] = status[u] /\ lines'[u] = lines[u]
            /\ answer'[u] = answer[u]
    BY <1>10 DEF IInv, Typed, Unrouted, Reply, Goto
  <2>7. up' = up /\ \A u \in Probes \ {t} : wasUp'[u] = wasUp[u] /\ wasDown'[u] = wasDown[u]
    BY <1>10 DEF IInv, Typed, Unrouted, Reply, Goto
  <2> QED
    BY <2>2, <2>3, <2>4, <2>5, <2>6, <2>7, OthersKept
<1>11. ASSUME NEW t \in Requests, Break(t)
      PROVE  IInv'
  <2>1. /\ pc[t] = "endpoint" /\ pc'[t] = "raised"
        /\ inner'[t] = inner[t] /\ id'[t] = id[t] /\ lines'[t] = lines[t] /\ answer'[t] = answer[t]
    BY <1>11 DEF IInv, Typed, Break, Goto
  <2>2. Typed'
    BY <1>11, <2>1 DEF IInv, Typed, AnyId, Break, Goto
  <2>3. Known(t)'
    BY <2>1 DEF IInv, Known
  <2>4. Logged(t)' /\ Told(t)'
    BY <2>1, SilentStep
  <2>5. t \in Probes => Probed(t)'
    BY <1>11
  <2>6. \A u \in Tasks \ {t} :
            /\ pc'[u] = pc[u] /\ id'[u] = id[u] /\ inner'[u] = inner[u]
            /\ outer'[u] = outer[u] /\ status'[u] = status[u] /\ lines'[u] = lines[u]
            /\ answer'[u] = answer[u]
    BY <1>11 DEF IInv, Typed, Break, Goto
  <2>7. up' = up /\ \A u \in Probes \ {t} : wasUp'[u] = wasUp[u] /\ wasDown'[u] = wasDown[u]
    BY <1>11 DEF IInv, Typed, Break, Goto
  <2> QED
    BY <2>2, <2>3, <2>4, <2>5, <2>6, <2>7, OthersKept
<1>12. ASSUME NEW t \in Probes, ProbePostgres(t)
      PROVE  IInv'
  <2>1. /\ pc[t] = "endpoint"
        /\ pc'[t] = IF "postgres" \in up THEN "postgresUp" ELSE "postgresDown"
        /\ inner'[t] = inner[t] /\ id'[t] = id[t] /\ lines'[t] = lines[t] /\ answer'[t] = answer[t]
        /\ up' = up /\ wasUp' = wasUp /\ wasDown' = wasDown
    BY <1>12 DEF IInv, Typed, ProbePostgres, Goto
  <2>2. Typed'
    BY <1>12, <2>1 DEF IInv, Typed, AnyId, ProbePostgres, Goto
  <2>3. Known(t)'
    BY <2>1 DEF IInv, Known
  <2>4. Logged(t)' /\ Told(t)'
    BY <2>1, SilentStep
  <2>5. t \in Probes => Probed(t)'
    BY <2>1 DEF IInv, Probed, Honest, Stores
  <2>6. \A u \in Tasks \ {t} :
            /\ pc'[u] = pc[u] /\ id'[u] = id[u] /\ inner'[u] = inner[u]
            /\ outer'[u] = outer[u] /\ status'[u] = status[u] /\ lines'[u] = lines[u]
            /\ answer'[u] = answer[u]
    BY <1>12 DEF IInv, Typed, ProbePostgres, Goto
  <2>7. up' = up /\ \A u \in Probes \ {t} : wasUp'[u] = wasUp[u] /\ wasDown'[u] = wasDown[u]
    BY <1>12 DEF IInv, Typed, ProbePostgres, Goto
  <2> QED
    BY <2>2, <2>3, <2>4, <2>5, <2>6, <2>7, OthersKept
<1>13. ASSUME NEW t \in Probes, ProbeRedis(t)
      PROVE  IInv'
  <2>1. /\ pc[t] \in {"postgresUp", "postgresDown"} /\ pc'[t] = "replied"
        /\ status' = [status EXCEPT ![t] = status'[t]] /\ pc' = [pc EXCEPT ![t] = "replied"]
        /\ status'[t] = IF pc[t] = "postgresUp" /\ "redis" \in up THEN 200 ELSE 503
        /\ inner'[t] = inner[t] /\ id'[t] = id[t] /\ lines'[t] = lines[t] /\ answer'[t] = answer[t]
        /\ up' = up /\ wasUp' = wasUp /\ wasDown' = wasDown /\ wasUp[t] \in SUBSET Stores
    BY <1>13 DEF IInv, Typed, ProbeRedis, Reply, Goto
  <2>2. Typed'
    <3>1. status \in [Tasks -> Codes] /\ status'[t] \in Codes
      BY <2>1 DEF IInv, Typed, Codes
    <3>2. status' \in [Tasks -> Codes]
      BY <2>1, <3>1
    <3> QED
      BY <1>13, <2>1, <3>2 DEF IInv, Typed, ProbeRedis
  <2>3. Known(t)'
    BY <2>1 DEF IInv, Known
  <2>4. Logged(t)' /\ Told(t)'
    BY <2>1, SilentStep
  <2>5. t \in Probes => Probed(t)'
    BY <2>1 DEF IInv, Probed, Honest, Stores
  <2>6. \A u \in Tasks \ {t} :
            /\ pc'[u] = pc[u] /\ id'[u] = id[u] /\ inner'[u] = inner[u]
            /\ outer'[u] = outer[u] /\ status'[u] = status[u] /\ lines'[u] = lines[u]
            /\ answer'[u] = answer[u]
    BY <1>13 DEF IInv, Typed, ProbeRedis, Reply, Goto
  <2>7. up' = up /\ \A u \in Probes \ {t} : wasUp'[u] = wasUp[u] /\ wasDown'[u] = wasDown[u]
    BY <1>13 DEF IInv, Typed, ProbeRedis, Reply, Goto
  <2> QED
    BY <2>2, <2>3, <2>4, <2>5, <2>6, <2>7, OthersKept
<1>14. ASSUME NEW s \in Stores, Toggle(s)
       PROVE  IInv'
  <2>1. Typed'
    BY <1>14 DEF IInv, Typed, Toggle
  <2>2. ASSUME NEW t \in Tasks
        PROVE  Known(t)' /\ Logged(t)' /\ Told(t)'
    BY <1>14, <2>2 DEF IInv, Known, Logged, Told, Refusal, Access, Toggle
  <2>3. ASSUME NEW t \in Probes
        PROVE  Probed(t)'
    BY <1>14, <2>1, <2>3 DEF IInv, Typed, Probed, Honest, Toggle
  <2> QED
    BY <2>1, <2>2, <2>3 DEF IInv
<1>15. CASE UNCHANGED vars
  <2>1. Typed'
    BY <1>15 DEF IInv, Typed, vars
  <2>2. ASSUME NEW t \in Tasks
        PROVE  Known(t)' /\ Logged(t)' /\ Told(t)'
    BY <1>15, <2>2 DEF IInv, Known, Logged, Told, Refusal, Access, vars
  <2>3. ASSUME NEW t \in Probes
        PROVE  Probed(t)'
    BY <1>15, <2>3 DEF IInv, Probed, Honest, vars
  <2> QED
    BY <2>1, <2>2, <2>3 DEF IInv
<1> QED
  BY <1>1, <1>2, <1>3, <1>4, <1>5, <1>6, <1>7, <1>8, <1>9, <1>10, <1>11, <1>12, <1>13, <1>14, <1>15
     DEF Next, Serve, Probe

\* The invariant holds however requests interleave and stores come and go.
THEOREM Invariant == Spec => []IInv
BY InitIInv, NextIInv, PTL DEF Spec

\* Records written within the middleware, and every response but that to an
\* unexpected error, carry the id of their own request; the service's record of
\* such an error and the server's records carry nobody's.
THEOREM Correlation == Spec => []CorrelatedWithin
<1>1. ASSUME IInv, NEW t \in Tasks
      PROVE  \A n \in DOMAIN lines[t] :
                lines[t][n].id = IF lines[t][n].event \in Within THEN id[t] ELSE NoId
  <2>1. \/ lines[t] = <<>>
        \/ lines[t] = <<Refusal(t)>>
        \/ \E c \in Codes : lines[t] = <<Access(t, c)>>
        \/ lines[t] = <<Refusal(t), Access(t, 404)>>
        \/ \E c \in Codes : lines[t] = <<Access(t, c), Served(c)>>
        \/ lines[t] = <<Refusal(t), Access(t, 404), Served(404)>>
        \/ lines[t] = <<Unhandled>>
        \/ lines[t] = <<Unhandled, Served(500)>>
        \/ lines[t] = <<Unhandled, Served(500), Failed>>
    <3>1. status[t] \in Codes /\ answer[t] \in Answers /\ answer[t].status \in Codes
      BY <1>1 DEF IInv, Typed, Answers
    <3>2. CASE pc[t] \in {"idle", "endpoint", "postgresUp", "postgresDown", "raised"}
      BY <1>1, <3>2 DEF IInv, Logged
    <3>3. CASE pc[t] \in {"replied", "logged"}
      BY <1>1, <3>1, <3>3 DEF IInv, Logged
    <3>4. CASE pc[t] \in {"handled", "answered"}
      BY <1>1, <3>4 DEF IInv, Logged
    <3>5. CASE pc[t] = "done"
      BY <1>1, <3>1, <3>5 DEF IInv, Told
    <3> QED
      BY <1>1, <3>2, <3>3, <3>4, <3>5 DEF IInv, Typed
  <2>2. ASSUME NEW c \in Codes
        PROVE  /\ Refusal(t).id = id[t] /\ Refusal(t).event = "app_error"
               /\ Access(t, c).id = id[t] /\ Access(t, c).event = "request"
               /\ Served(c).id = NoId /\ Served(c).event = "served"
    BY DEF Refusal, Access, Served, Record
  <2>3. /\ Unhandled.id = NoId /\ Unhandled.event = "unhandled_error"
        /\ Failed.id = NoId /\ Failed.event = "failed" /\ {404, 500} \subseteq Codes
    BY DEF Unhandled, Failed, Record, Codes
  <2> QED
    BY <2>1, <2>2, <2>3 DEF Within
<1>2. ASSUME IInv, NEW t \in Tasks, answer[t] # None
      PROVE  answer[t].id = IF answer[t].status = 500 THEN NoId ELSE id[t]
  BY <1>2 DEF IInv, Told
<1>3. IInv => CorrelatedWithin
  BY <1>1, <1>2 DEF CorrelatedWithin
<1> QED
  BY <1>3, Invariant, PTL

\* In the end the log holds one record of the service's on how the request ended,
\* the server's behind it, and all agree with the response.
THEOREM OneOutcome == Spec => []OneOutcomeRecord
<1>1. ASSUME IInv, NEW t \in Tasks, pc[t] = "done"
      PROVE  /\ [n \in DOMAIN lines[t] |-> lines[t][n].event] \in Account(answer[t].status)
             /\ \A n \in DOMAIN lines[t] : lines[t][n].status = answer[t].status
  <2> DEFINE told == answer[t].status
  <2>1. CASE told = 500 /\ lines[t] = <<Unhandled, Served(500), Failed>>
    <3>1. [n \in DOMAIN lines[t] |-> lines[t][n].event] = <<"unhandled_error", "served", "failed">>
      BY <2>1 DEF Unhandled, Served, Failed, Record
    <3>2. \A n \in DOMAIN lines[t] : lines[t][n].status = told
      BY <2>1 DEF Unhandled, Served, Failed, Record
    <3> QED
      BY <2>1, <3>1, <3>2 DEF Account
  <2>2. CASE told # 500 /\ lines[t] = <<Access(t, told), Served(told)>>
    <3>1. [n \in DOMAIN lines[t] |-> lines[t][n].event] = <<"request", "served">>
      BY <2>2 DEF Access, Served, Record
    <3>2. \A n \in DOMAIN lines[t] : lines[t][n].status = told
      BY <2>2 DEF Access, Served, Record
    <3> QED
      BY <2>2, <3>1, <3>2 DEF Account
  <2>3. CASE told = 404 /\ lines[t] = <<Refusal(t), Access(t, 404), Served(404)>>
    <3>1. [n \in DOMAIN lines[t] |-> lines[t][n].event] = <<"app_error", "request", "served">>
      BY <2>3 DEF Refusal, Access, Served, Record
    <3>2. \A n \in DOMAIN lines[t] : lines[t][n].status = told
      BY <2>3 DEF Refusal, Access, Served, Record
    <3> QED
      BY <2>3, <3>1, <3>2 DEF Account
  <2> QED
    BY <1>1, <2>1, <2>2, <2>3 DEF IInv, Told
<1>2. IInv => OneOutcomeRecord
  BY <1>1 DEF OneOutcomeRecord
<1> QED
  BY <1>2, Invariant, PTL

\* A readiness answer is about the time its two probes took.
THEOREM ReadinessHonest == Spec => []HonestReadiness
<1>1. IInv => HonestReadiness
  BY DEF IInv, Probed, Honest, HonestReadiness
<1> QED
  BY <1>1, Invariant, PTL
===============================================================================
