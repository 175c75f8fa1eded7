---------------------------- MODULE Connection -----------------------------
(***************************************************************************)
(* One connection of the control socket: a client (request_json,           *)
(* run_policy_load, run_events, or one that writes several requests at     *)
(* once) and the handler thread of the daemon (handle_client, handle_line, *)
(* handle_request).                                                        *)
(*                                                                         *)
(* A socket is a stream of tokens: a token is the text of one JSON value,  *)
(* or the newline NL.  recv(2) returns any non-empty part of what has      *)
(* arrived.  A line of two texts without a newline between them is not     *)
(* JSON.                                                                   *)
(***************************************************************************)
EXTENDS ConfigParser

CONSTANTS
    NL,
    Scripts,    \* what a client may write: sequences of tokens
    Files,      \* contents of the policy file of policy load
    Edited,     \* what the file may be changed to
    Kinds,      \* clients: "raw", "ask", "load", "events"
    Stat,       \* the file system
    MaxEdits,   \* bound: edits of the policy file
    MaxEvents   \* bound: events streamed

\* The text of a request object, of another JSON value, or of no JSON.
JsonRequest == [cmd : Member(Text), policy : JsonPolicy \cup {Absent, Other}]
Token == JsonRequest \cup {Other, NotJson, OutOfRange, NL}

\* The answers of the daemon: the members they have, "ok" and a version.
Replies ==
    [keys : {K \in SUBSET {"ok", "error", "internal", "policy_version", "status",
                           "rules", "stream", "message"} : "ok" \in K},
     ok : BOOLEAN, version : Int]

ASSUME ConnectionAssumption ==
    /\ NL \notin {Other, NotJson, OutOfRange}
    /\ {"status", "list", "load_policy", "stream", "stop"} \subseteq Text
    /\ \A m \in {NL, Other, NotJson, OutOfRange} : m \notin JsonRequest
    /\ NL \notin Replies
    /\ Scripts \subseteq Seq(Token)
    /\ Files \subseteq Document /\ Edited \subseteq Document
    /\ Kinds \subseteq {"raw", "ask", "load", "events"}
    /\ Stat \in [Path -> FileId \cup {NoFile}]
    /\ MaxEdits \in Nat /\ MaxEvents \in Nat

VARIABLES
    kind,       \* the client
    cl,         \* client: program counter, bytes not yet a line, what it got;
                \* ghost gaveUp: it hung up before it had a line
    file,       \* the policy file it loads
    edits,      \* times the file was changed
    toD, toC,   \* bytes under way to the daemon and to the client
    hd,         \* handler: program counter and buf
    applies,    \* whether the kernel takes the maps of a policy
    current,    \* PolicyManager::current_
    running,    \* Daemon::running_
    read,       \* ghost: everything the handler received
    handled,    \* ghost: the lines handle_line was called with
    replies,    \* ghost: the answers it wrote
    streamed    \* events written to the stream

vars == <<kind, cl, file, edits, toD, toC, hd, applies, current, running, read,
          handled, replies, streamed>>
client == <<kind, cl, file, edits, applies>>
daemon == <<hd, current, running, read, handled, replies, streamed>>

Request(cmd, policy) == [cmd |-> cmd, policy |-> policy]

\* An answer: ok, what it is about, and the policy version it quotes.
Answer(ok, what, version) ==
    [keys |-> {"ok", what}, ok |-> ok, version |-> version]

\* json_of: the event itself, not under a key "event".
json_of ==
    [keys |-> {"timestamp", "pid", "resource"}, ok |-> FALSE, version |-> 0]

NoAnswer == [keys |-> {}, ok |-> FALSE, version |-> 0]

Init ==
    /\ kind \in Kinds
    /\ file \in IF kind = "load" THEN Files ELSE {NotJson}
    /\ cl = [pc |-> "start", pending |-> <<>>, got |-> NoAnswer, shown |-> 0,
              gaveUp |-> FALSE]
    /\ edits = 0
    /\ toD = <<>> /\ toC = <<>>
    /\ hd = [pc |-> "recv", buf |-> <<>>]
    /\ applies \in BOOLEAN
    /\ current = NoPolicy
    /\ running = TRUE
    /\ read = <<>> /\ handled = <<>> /\ replies = <<>> /\ streamed = 0

-----------------------------------------------------------------------------
(* Lines.                                                                  *)

HasLine(bytes) == Contains(bytes, NL)

FirstLine(bytes) == SubSeq(bytes, 1, SelectInSeq(bytes, LAMBDA b : b = NL) - 1)

\* Mutant: what follows the first line is thrown away.
AfterLine_Lost(bytes) == <<>>

AfterLine(bytes) ==
    SubSeq(bytes, SelectInSeq(bytes, LAMBDA b : b = NL) + 1, Len(bytes))

\* Where the lines that are not empty end, and the line that ends there.
LineEnds(bytes) == {e \in 2..Len(bytes) : bytes[e] = NL /\ bytes[e - 1] # NL}

LineAt(bytes, e) ==
    LET before == Max({0} \cup {i \in 1..(e - 1) : bytes[i] = NL})
    IN  SubSeq(bytes, before + 1, e - 1)

\* The k-th smallest of a set of numbers.
Nth(E, k) == CHOOSE e \in E : Cardinality({x \in E : x <= e}) = k

LinesEnding(bytes, E) == [k \in 1..Cardinality(E) |-> LineAt(bytes, Nth(E, k))]

\* The lines of a text that are not empty.
Lines(bytes) == LinesEnding(bytes, LineEnds(bytes))

-----------------------------------------------------------------------------
(* The requests.                                                           *)

\* What json::parse makes of a line: one text, or a parse_error; a number no
\* double can hold ends it where it is met.
Parse(line) ==
    IF Len(line) = 1 \/ line[1] = OutOfRange THEN line[1] ELSE NotJson

VersionOf(p) == IF p = NoPolicy THEN 0 ELSE p.version

\* Mutant: the version is taken from the document, in its full width.
LoadPolicy_Wide(cur, doc) ==
    IF from_json(doc) # "ok" \/ ~(CanCompile(PolicyOf(doc), Stat) /\ applies)
    THEN [answer |-> Answer(FALSE, "error", 0), policy |-> cur]
    ELSE [answer |-> Answer(TRUE, "policy_version", PolicyOf(doc).version),
          policy |-> [PolicyOf(doc) EXCEPT !.version = doc.version.n]]

\* Mutant: the policy is made current although it does not compile.
LoadPolicy_Unchecked(cur, doc) ==
    LET parsed == from_json(doc) IN
    IF parsed # "ok"
    THEN [answer |-> Answer(FALSE, IF parsed = "error" THEN "error" ELSE "internal", 0),
          policy |-> cur]
    ELSE [answer |-> Answer(TRUE, "policy_version", PolicyOf(doc).version),
          policy |-> PolicyOf(doc)]

\* load_policy: parsed again, compiled, applied, and made the current policy.
\* What from_json throws is caught in handle_line.
LoadPolicy(cur, doc) ==
    LET parsed == from_json(doc) IN
    IF parsed # "ok"
    THEN [answer |-> Answer(FALSE, IF parsed = "error" THEN "error" ELSE "internal", 0),
          policy |-> cur]
    ELSE IF ~(CanCompile(PolicyOf(doc), Stat) /\ applies)
    THEN [answer |-> Answer(FALSE, "error", 0), policy |-> cur]
    ELSE [answer |-> Answer(TRUE, "policy_version", PolicyOf(doc).version),
          policy |-> PolicyOf(doc)]

\* handle_request of an object whose "cmd" is a string or absent.
handle_request(cur, req) ==
    LET same(a) == [answer |-> a, policy |-> cur] IN
    CASE req.cmd = "status" -> same(Answer(TRUE, "status", VersionOf(cur)))
      [] req.cmd = "list" -> same(Answer(TRUE, "rules", VersionOf(cur)))
      [] req.cmd = "load_policy" /\ Given(req.policy) -> LoadPolicy(cur, req.policy)
      [] req.cmd = "stream" -> same(Answer(TRUE, "stream", 0))
      [] req.cmd = "stop" -> same(Answer(TRUE, "message", 0))
      [] OTHER -> same(Answer(FALSE, "error", 0))

\* value("cmd", "") outside the try block, or an out_of_range where only
\* parse_error is caught, in a detached thread: the process is terminated.
Terminates(req) ==
    req # NotJson /\ (req \notin {Other, OutOfRange} => req.cmd = Other)

-----------------------------------------------------------------------------
(* The handler thread.                                                     *)

\* The loop of handle_client: a part of what has arrived.
HandlerRecv ==
    /\ hd.pc = "recv"
    /\ \E n \in 1..Len(toD) :
          /\ hd' = [pc |-> "lines", buf |-> hd.buf \o SubSeq(toD, 1, n)]
          /\ read' = read \o SubSeq(toD, 1, n)
          /\ toD' = SubSeq(toD, n + 1, Len(toD))
    /\ UNCHANGED <<client, toC, current, running, handled, replies, streamed>>

\* recv(2) returns 0; or running_ is false when the loop comes round, whatever
\* has arrived by then.
HandlerClose ==
    /\ hd.pc = "recv"
    /\ (toD = <<>> /\ cl.pc = "closed") \/ ~running
    /\ hd' = [hd EXCEPT !.pc = "closed"]
    /\ UNCHANGED <<client, toD, toC, current, running, read, handled, replies,
                   streamed>>

\* The loop goes round, and tests running_ first.
NoMoreLines ==
    /\ hd.pc = "lines" /\ ~HasLine(hd.buf)
    /\ hd' = [hd EXCEPT !.pc = IF running THEN "recv" ELSE "closed"]
    /\ UNCHANGED <<client, toD, toC, current, running, read, handled, replies,
                   streamed>>

EmptyLine ==
    /\ hd.pc = "lines" /\ HasLine(hd.buf) /\ FirstLine(hd.buf) = <<>>
    /\ hd' = [hd EXCEPT !.buf = AfterLine(@)]
    /\ UNCHANGED <<client, toD, toC, current, running, read, handled, replies,
                   streamed>>

Reply(answer) ==
    /\ toC' = toC \o <<answer, NL>>
    /\ replies' = Append(replies, answer)

\* handle_line for a line that is JSON the handler copes with, or no JSON.
HandleLine ==
    /\ hd.pc = "lines" /\ HasLine(hd.buf) /\ FirstLine(hd.buf) # <<>>
    /\ handled' = Append(handled, FirstLine(hd.buf))
    /\ LET req == Parse(FirstLine(hd.buf)) IN
          /\ ~Terminates(req)
          /\ \/ /\ req = NotJson
                /\ Reply(Answer(FALSE, "error", 0))
                /\ hd' = [hd EXCEPT !.buf = AfterLine(@)]
                /\ UNCHANGED <<current, running>>
             \/ /\ req # NotJson
                /\ LET r == handle_request(current, req) IN
                      Reply(r.answer) /\ current' = r.policy
                /\ running' = (running /\ req.cmd # "stop")
                /\ hd' = [pc  |-> IF req.cmd = "stream" THEN "stream" ELSE "lines",
                          buf |-> AfterLine(hd.buf)]
    /\ UNCHANGED <<client, toD, read, streamed>>

\* The other lines end the process, and with it every connection.
HandlerTerminate ==
    /\ hd.pc = "lines" /\ HasLine(hd.buf) /\ FirstLine(hd.buf) # <<>>
    /\ Terminates(Parse(FirstLine(hd.buf)))
    /\ handled' = Append(handled, FirstLine(hd.buf))
    /\ hd' = [hd EXCEPT !.pc = "dead"]
    /\ running' = FALSE
    /\ UNCHANGED <<client, toD, toC, current, read, replies, streamed>>

\* The writer thread of a stream sends an event, without a newline.
StreamEvent ==
    /\ hd.pc = "stream"
    /\ streamed < MaxEvents
    /\ toC' = Append(toC, json_of)
    /\ streamed' = streamed + 1
    /\ UNCHANGED <<client, toD, hd, current, running, read, handled, replies>>

\* The loop of enter_stream_mode ends when the client is gone or the daemon is
\* stopping.
StreamClose ==
    /\ hd.pc = "stream"
    /\ cl.pc = "closed" \/ ~running
    /\ hd' = [hd EXCEPT !.pc = "closed"]
    /\ UNCHANGED <<client, toD, toC, current, running, read, handled, replies,
                   streamed>>

\* A signal, or a "stop" on another connection.
StopElsewhere ==
    /\ running
    /\ running' = FALSE
    /\ UNCHANGED <<client, toD, toC, hd, current, read, handled, replies, streamed>>

-----------------------------------------------------------------------------
(* The client.                                                             *)

Send(bytes, pc) ==
    /\ toD' = bytes
    /\ cl' = [cl EXCEPT !.pc = pc]

\* One write of one request (status, list, stop; events) or of several.
ClientSend ==
    /\ cl.pc = "start"
    /\ \/ kind = "raw" /\ \E s \in Scripts : Send(s, "closed")
       \/ /\ kind = "ask"
          /\ \E c \in {"status", "list", "stop"} :
                Send(<<Request(c, Absent), NL>>, "answer")
       \/ kind = "events" /\ Send(<<Request("stream", Absent), NL>>, "events")
    /\ UNCHANGED <<kind, file, edits, applies, toC, daemon>>

\* policy load, like policy validate, parses and compiles the file; nothing in
\* guardctl catches what from_json throws.
LoadCheck ==
    /\ cl.pc = "start" /\ kind = "load"
    /\ LET parsed == from_json(file) IN
          cl' = [cl EXCEPT !.pc =
                    CASE parsed = "throws" -> "aborted"
                      [] parsed = "error" -> "refused"
                      [] parsed = "ok" -> IF CanCompile(PolicyOf(file), Stat)
                                          THEN "checked" ELSE "refused"]
    /\ UNCHANGED <<kind, file, edits, applies, toD, toC, daemon>>

\* The file is read a second time for the request.
LoadSend ==
    /\ cl.pc = "checked"
    /\ \/ /\ file \in {NotJson, OutOfRange}
          /\ cl' = [cl EXCEPT !.pc = "aborted"] /\ UNCHANGED toD
       \/ /\ file \notin {NotJson, OutOfRange}
          /\ Send(<<Request("load_policy", file), NL>>, "answer")
    /\ UNCHANGED <<kind, file, edits, applies, toC, daemon>>

\* Somebody saves another version of the file.
Edit ==
    /\ kind = "load" /\ cl.pc \in {"start", "checked"}
    /\ edits < MaxEdits
    /\ edits' = edits + 1
    /\ file' \in Edited
    /\ UNCHANGED <<kind, cl, applies, toD, toC, daemon>>

\* request_json reads until it has a line, and hangs up.
ClientAnswer ==
    /\ cl.pc = "answer"
    /\ \E n \in 1..Len(toC) :
          /\ toC' = SubSeq(toC, n + 1, Len(toC))
          /\ LET line == cl.pending \o SubSeq(toC, 1, n) IN
                cl' = IF HasLine(line)
                      THEN [cl EXCEPT !.pc = "closed", !.got = FirstLine(line)[1]]
                      ELSE [cl EXCEPT !.pending = line]
    /\ UNCHANGED <<kind, file, edits, applies, toD, daemon>>

\* The loop of request_json ends without a newline: a text that is whole is an
\* answer nonetheless.
WithoutLine ==
    IF cl.pc = "answer" /\ cl.pending # <<>> THEN cl.pending[1] ELSE NoAnswer

\* recv(2) returns 0.
ClientEof ==
    /\ cl.pc \in {"answer", "events"} /\ toC = <<>>
    /\ hd.pc \in {"closed", "dead"}
    /\ cl' = [cl EXCEPT !.pc = "closed", !.got = WithoutLine]
    /\ UNCHANGED <<kind, file, edits, applies, toD, toC, daemon>>

\* recv(2) fails, interrupted by a signal, say; or request_json has more than
\* 1 MiB and no newline.
ClientGiveUp ==
    /\ cl.pc \in {"answer", "events"}
    /\ cl' = [cl EXCEPT !.pc = "closed", !.got = WithoutLine, !.gaveUp = TRUE]
    /\ UNCHANGED <<kind, file, edits, applies, toD, toC, daemon>>

\* run_events: of the whole lines in pending, those with an "event" are shown.
ClientEvents ==
    /\ cl.pc = "events"
    /\ \E n \in 1..Len(toC) :
          /\ toC' = SubSeq(toC, n + 1, Len(toC))
          /\ LET all   == cl.pending \o SubSeq(toC, 1, n)
                 last  == SelectLastInSeq(all, LAMBDA b : b = NL)
                 lines == Lines(SubSeq(all, 1, last))
                 shown == SelectSeq(lines, LAMBDA l : /\ Len(l) = 1
                                                      /\ "event" \in l[1].keys)
             IN  cl' = [cl EXCEPT !.pending = SubSeq(all, last + 1, Len(all)),
                                  !.shown = @ + Len(shown)]
    /\ UNCHANGED <<kind, file, edits, applies, toD, daemon>>

Next ==
    \/ HandlerRecv
    \/ HandlerClose
    \/ NoMoreLines
    \/ EmptyLine
    \/ HandleLine
    \/ HandlerTerminate
    \/ StreamEvent
    \/ StreamClose
    \/ StopElsewhere
    \/ ClientSend
    \/ LoadCheck
    \/ LoadSend
    \/ Edit
    \/ ClientAnswer
    \/ ClientEof
    \/ ClientGiveUp
    \/ ClientEvents

Spec == Init /\ [][Next]_vars

-----------------------------------------------------------------------------
TypeOK ==
    /\ kind \in Kinds
    /\ cl.pc \in {"start", "checked", "answer", "events", "closed", "refused",
                  "aborted"}
    /\ hd.pc \in {"recv", "lines", "stream", "closed", "dead"}
    /\ edits \in 0..MaxEdits /\ streamed \in 0..MaxEvents
    /\ running \in BOOLEAN
    /\ current # NoPolicy => validate(current)
    /\ VersionOf(current) \in 0..(IntRange \div 2 - 1)
    /\ replies \in Seq(Replies)

\* A line that loads a policy, and the policy in force after n lines: that of the
\* last of them that loads one.
Installs(line) ==
    LET req == Parse(line) IN
    /\ req \notin {NotJson, Other, OutOfRange}
    /\ req.cmd = "load_policy" /\ Given(req.policy)
    /\ from_json(req.policy) = "ok"
    /\ CanCompile(PolicyOf(req.policy), Stat) /\ applies

PolicyAfter(lines, n) ==
    LET loading == {i \in 1..n : Installs(lines[i])}
    IN  IF loading = {} THEN NoPolicy
        ELSE PolicyOf(Parse(lines[Max(loading)]).policy)

\* What whole lines, handled one after the other, are answered with.
AnswersTo(lines) ==
    [i \in 1..Len(lines) |->
        IF Parse(lines[i]) = NotJson THEN Answer(FALSE, "error", 0)
        ELSE handle_request(PolicyAfter(lines, i - 1), Parse(lines[i])).answer]

\* A guardctl that has hung up has the answer to its request; or it has none,
\* because the daemon gave none or because it gave up waiting.
OwnAnswer ==
    kind \in {"ask", "load"} /\ cl.pc = "closed" =>
        IF cl.got = NoAnswer THEN replies = <<>> \/ cl.gaveUp
                             ELSE replies # <<>> /\ cl.got = replies[1]

\* "one JSON object per line" (include/fileguard/daemon.hpp:57): however the
\* stream is cut up, each line is handled once and in order, each has one
\* answer, and a guardctl that waits for an answer gets the one to its request,
\* unless it gives up on an error of recv(2) or beyond 1 MiB.
LineProtocol ==
    /\ IsPrefix(handled, Lines(read))
    /\ hd.pc = "recv" => handled = Lines(read)
    /\ replies = AnswersTo(IF hd.pc = "dead" THEN Front(handled) ELSE handled)
    /\ OwnAnswer

\* from_json against an independent reading of the file: what it accepts is a
\* valid policy that says exactly what the document says but for the version,
\* which stands for the number or boolean there; and the policy spelt out in full
\* is accepted and read back unchanged.
ParserFaithful ==
    kind = "load" /\ from_json(file) = "ok" =>
        LET p == PolicyOf(file) IN
        /\ p \in PolicyType /\ validate(p)
        /\ \A i \in DOMAIN p.rules : p.rules[i].process \in AbsPath
        /\ from_json(Written(p)) = "ok" /\ PolicyOf(Written(p)) = p
        /\ Covers(file, Written(p))
        /\ StandsFor(p.version, file.version)

\* "Policy is loaded from JSON configuration, validated before install"
\* (docs/03-requirements.md:13), and "bad policies never reach the daemon"
\* (src/cli.cpp:283) as far as the second read of the file allows: the current
\* policy compiles, no policy document ends the daemon, and one that guardctl
\* checked is accepted unless the file was changed or the kernel refuses it.
LoadSafe ==
    /\ current # NoPolicy => CanCompile(current, Stat)
    /\ kind = "load" => hd.pc # "dead"
    /\ kind = "load" /\ edits = 0 /\ applies /\ replies # <<>>
          => replies[1].ok

\* "{"event":{...}} per line" (include/fileguard/daemon.hpp:54): a guardctl that
\* streams events and has read everything has shown every event.
EventsShown == kind = "events" /\ toC = <<>> => cl.shown = streamed
=============================================================================
