---------------------------- MODULE CommandLine ----------------------------
(***************************************************************************)
(* The command line (crates/pty/src/cli): what a list of words makes each  *)
(* command do.  A user types phrases and presses return; the outcome is    *)
(* what the command hands on (act, the sessions it acts on, the options    *)
(* and the child's words) or the exit code it stops with.  A word is an    *)
(* atom; the few things the parsers ask of its letters are the sets below. *)
(***************************************************************************)
EXTENDS Integers, Sequences, FiniteSets, SequencesExt

CONSTANTS
  Commands,   \* the commands typed
  MaxWords    \* bound: words typed after the opening

VARIABLES
  words,    \* what was typed
  nested,   \* PTY_SESSION, "" outside a session
  outcome

cmdvars == <<words, nested, outcome>>

----------------------------------------------------------------------------
(* What the parsers ask of a word. *)
Plain == {"", "a", "b", "c", "w", "u", "x", "p", "0", "3", "7d", "k=v", "=v", "sha", "running",
          "patch", "cas", "ownership", "snapshot", "remove", "identity", "install", "read",
          "show", "settle", "retire", "reserve", "role", "bash"}
SingleDash == {"-d", "-a", "-y", "-t", "-p", "-f", "-r", "-n", "-e", "-h", "-z"}
StartsDash(w) == w \notin Plain /\ w \notin Commands
StartsTwo(w) == StartsDash(w) /\ w \notin SingleDash
HasEquals(w) == w \in {"k=v", "=v"}
IsNumber(w) == w \in {"0", "3"}
IsDigest(w) == w = "sha"
(* registry::validate_name: letters, digits, dots, hyphens, underscores. *)
ValidName(w) == w \notin {"", "k=v", "=v"}
(* js_parse_int reads the digits a word begins with: 3 of 3, 7 of 7d. *)
JsParseInt(w) == CASE w = "3" -> 3 [] w = "7d" -> 7 [] w = "0" -> 0 [] OTHER -> -1
(* js_parse_float, likewise; the words here have no fraction or exponent. *)
JsParseFloat(w) == JsParseInt(w)
ParseDuration(w) == IF w = "7d" THEN 7 ELSE -1
Good(kind, w) ==
  CASE kind = "any" -> TRUE
    [] kind = "plain" -> ~StartsDash(w)
    [] kind = "some" -> w # ""
    [] kind = "value" -> w # "" /\ ~StartsDash(w)
    [] kind = "oneDash" -> w # "" /\ ~StartsTwo(w)
    [] kind = "noTwo" -> ~StartsTwo(w)
    [] kind = "number" -> IsNumber(w)
    [] kind = "positive" -> w = "3"
    [] kind = "positiveJs" -> JsParseInt(w) > 0
    [] kind = "age" -> w = "0" \/ ParseDuration(w) >= 0
    [] kind = "duration" -> ParseDuration(w) >= 0
    [] kind = "pair" -> HasEquals(w)
    [] kind = "keyed" -> w = "k=v"
    [] kind = "key" -> w # "" /\ ~HasEquals(w)
    [] kind = "status" -> w \in {"running", "exited", "vanished"}

----------------------------------------------------------------------------
(* The sessions of the registry, and the reference a word makes to one. *)
Rows == <<[id |-> "a", name |-> "w", status |-> "running", created |-> 2, ended |-> 0, tagged |-> TRUE],
          [id |-> "b", name |-> "w", status |-> "exited", created |-> 9, ended |-> 8, tagged |-> FALSE],
          [id |-> "c", name |-> "u", status |-> "vanished", created |-> 3, ended |-> 0, tagged |-> TRUE]>>
RowSet == Range(Rows)
NoSession == ""
Row(id) == CHOOSE r \in RowSet : r.id = id
(* registry::get_session: the id first, else the one session so displayed. *)
GetSession(ref) ==
  LET named == {r \in RowSet : r.name = ref}
  IN  CASE \E r \in RowSet : r.id = ref -> ref
        [] OTHER -> IF Cardinality(named) = 1 THEN (CHOOSE r \in named : TRUE).id ELSE NoSession
Resolves(ref) == GetSession(ref) # NoSession

Outcome(act, on, got, rest) ==
  [exit |-> 0, act |-> act, on |-> on, got |-> got, words |-> rest]
Fails(code) == [exit |-> code, act |-> "none", on |-> <<>>, got |-> {}, words |-> <<>>]
Prints == Outcome("help", <<>>, {}, <<>>)
OnRef(act, ref, got, rest) ==
  IF Resolves(ref) THEN Outcome(act, <<GetSession(ref)>>, got, rest) ELSE Fails(1)
RequireRef(act, args) == IF args = <<>> THEN Fails(1) ELSE OnRef(act, args[1], {}, <<>>)
EnsureNotNested(force) == force \/ nested = ""

----------------------------------------------------------------------------
(* One loop over the words serves every parser.  An option is a record: to *)
(* is its slot, arg the kind of value it takes ("" none); lack says what a *)
(* missing value does and bad what an unfit one does. *)
Option(to, arg, lack, bad, once, code) ==
  [to |-> to, arg |-> arg, lack |-> lack, bad |-> bad, once |-> once, code |-> code]
Flag(to) == Option(to, "", "", "", FALSE, 1)
Value(to, kind) == Option(to, kind, "error", "error", FALSE, 1)
Once(to, kind, code) == Option(to, kind, "error", "error", TRUE, code)
Maybe(to, kind) == Option(to, kind, "forget", "forget", FALSE, 1)
WordIfBare(to, kind, bad) == Option(to, kind, "word", bad, FALSE, 1)
Stop(code) == Option("stop", "", "stop", "", FALSE, code)

Begin == [skip |-> FALSE, done |-> FALSE, code |-> 0, got |-> <<>>, pos |-> <<>>, rest |-> <<>>]
Has(p, k) == \E i \in DOMAIN p.got : p.got[i][1] = k
Get(p, k) == IF Has(p, k) THEN p.got[CHOOSE i \in DOMAIN p.got : /\ p.got[i][1] = k
                                      /\ \A j \in DOMAIN p.got : p.got[j][1] = k => j <= i][2]
             ELSE ""
Gave(p) == {<<p.got[i][1], Get(p, p.got[i][1])>> : i \in DOMAIN p.got}
Forget(p, k) == [p EXCEPT !.got = SelectSeq(@, LAMBDA g : g[1] # k)]
Keep(p, k, v) == [p EXCEPT !.got = Append(@, <<k, v>>)]
Refuse(p, code) == [p EXCEPT !.code = code, !.done = TRUE]

(* Mutant: a second name replaces the first instead of being refused. *)
TakeOtherLastWins(p, other, args, i) ==
  CASE other = "stop" -> [p EXCEPT !.done = TRUE,
         !.rest = SubSeq(args, IF args[i] = "--" THEN i + 1 ELSE i, Len(args))]
    [] other = "first" -> [p EXCEPT !.pos = <<args[i]>>]
    [] other \in {"error", "usage"} -> Refuse(p, IF other = "usage" THEN 64 ELSE 1)
    [] other = "ignore" -> p
    [] other = "last" -> [p EXCEPT !.pos = <<args[i]>>]
    [] other = "words" -> [p EXCEPT !.pos = Append(@, args[i])]
    [] other = "values" -> IF StartsTwo(args[i]) THEN Refuse(p, 64) ELSE [p EXCEPT !.pos = Append(@, args[i])]
(* A word that is no option. *)
TakeOther(p, other, args, i) ==
  CASE other = "stop" -> [p EXCEPT !.done = TRUE,
         !.rest = SubSeq(args, IF args[i] = "--" THEN i + 1 ELSE i, Len(args))]
    [] other = "first" -> IF p.pos = <<>> THEN [p EXCEPT !.pos = <<args[i]>>] ELSE Refuse(p, 1)
    [] other \in {"error", "usage"} -> Refuse(p, IF other = "usage" THEN 64 ELSE 1)
    [] other = "ignore" -> p
    [] other = "last" -> [p EXCEPT !.pos = <<args[i]>>]
    [] other = "words" -> [p EXCEPT !.pos = Append(@, args[i])]
    [] other = "values" -> IF StartsTwo(args[i]) THEN Refuse(p, 64) ELSE [p EXCEPT !.pos = Append(@, args[i])]
(* What a missing or an unfit value does. *)
Without(p, o, how, other, args, i) ==
  CASE how = "error" -> Refuse(p, o.code)
    [] how = "forget" -> [Forget(p, o.to) EXCEPT !.skip = TRUE]
    [] how = "empty" -> [Keep(p, o.to, "") EXCEPT !.skip = TRUE]
    [] how = "bare" -> Keep(p, o.to, "")
    [] how = "skip" -> [p EXCEPT !.skip = TRUE]
    [] how = "word" -> TakeOther(p, other, args, i)
TakeOption(p, o, other, args, i) ==
  CASE o.lack = "stop" -> [p EXCEPT !.done = TRUE, !.code = o.code]
    [] o.lack # "stop" /\ o.arg = "" -> Keep(p, o.to, "")
    [] o.lack # "stop" /\ o.arg # "" ->
         IF i = Len(args) THEN Without(p, o, o.lack, other, args, i)
         ELSE IF ~Good(o.arg, args[i + 1]) THEN Without(p, o, o.bad, other, args, i)
         ELSE IF o.once /\ Has(p, o.to) THEN Refuse(p, o.code)
         ELSE [Keep(p, o.to, args[i + 1]) EXCEPT !.skip = TRUE]
ParseWords(table, other, args) ==
  FoldLeft(LAMBDA p, i :
             IF p.done THEN p
             ELSE IF p.skip THEN [p EXCEPT !.skip = FALSE]
             ELSE IF args[i] \in DOMAIN table THEN TakeOption(p, table[args[i]], other, args, i)
             ELSE TakeOther(p, other, args, i),
           Begin, [i \in 1..Len(args) |-> i])
Table(pairs) == [k \in {q[1] : q \in pairs} |-> (CHOOSE q \in pairs : q[1] = k)[2]]

----------------------------------------------------------------------------
(* pty run *)
RunTable == Table({<<"--id", Maybe("id", "any")>>, <<"--name", Maybe("name", "any")>>,
  <<"--cwd", Maybe("cwd", "any")>>, <<"--rows", Maybe("rows", "number")>>,
  <<"--cols", Maybe("cols", "number")>>, <<"-d", Flag("d")>>, <<"--detach", Flag("d")>>,
  <<"--force", Flag("force")>>, <<"-e", Flag("e")>>, <<"--ephemeral", Flag("e")>>,
  <<"--startup-timeout-ms", Value("timeout", "positive")>>,
  <<"--lifecycle-tag", Value("lifecycle", "some")>>,
  <<"--operation-fd", Option("fd", "any", "empty", "", FALSE, 1)>>,
  <<"--launch-operation", Option("launch", "any", "empty", "", FALSE, 1)>>,
  <<"--publication-operation", Once("puboperation", "noTwo", 64)>>,
  <<"--publication-binding", Once("pubbinding", "noTwo", 64)>>,
  <<"--publication-root-id", Once("pubroot", "noTwo", 64)>>,
  <<"--tag", Value("tag", "pair")>>, <<"--env", Value("env", "keyed")>>,
  <<"--unset-env", Value("unset", "key")>>, <<"--isolate-env", Flag("isolate")>>,
  <<"-a", Flag("a")>>, <<"--attach", Flag("a")>>, <<"--no-display-name", Flag("noname")>>})
(* insert_env_token: KEY=VALUE, or KEY of the inherited environment; no *)
(* word here names an inherited variable. *)
InsertEnvToken(w) == w = "k=v"
PubParts(p) == {k \in {"puboperation", "pubbinding", "pubroot"} : Has(p, k)}
Publishes(p) ==
  /\ Cardinality(PubParts(p)) = 3 /\ Get(p, "pubroot") # "" /\ Has(p, "d") /\ ~Has(p, "a") /\ Get(p, "id") # ""
  /\ Get(p, "puboperation") # "" /\ IsDigest(Get(p, "pubbinding"))
OperationArguments(p) ==
  /\ Has(p, "fd") /\ Has(p, "launch") /\ Get(p, "fd") = "3" /\ IsDigest(Get(p, "launch"))
  /\ Get(p, "id") # "" /\ Has(p, "d") /\ ~Has(p, "a") /\ ~Has(p, "lifecycle")
RunArguments(p) ==
  CASE p.code # 0 -> p.code
    [] p.code = 0 /\ ((Has(p, "timeout") /\ ~Has(p, "lifecycle")) \/ p.rest = <<>>) -> 1
    [] OTHER -> IF PubParts(p) # {} /\ ~Publishes(p) THEN 64
                ELSE IF (Has(p, "fd") \/ Has(p, "launch")) /\ ~OperationArguments(p) THEN 64 ELSE 0
(* Inside a session the command runs directly, unless it would attach. *)
RunNested(p) ==
  LET ref == IF Has(p, "id") THEN Get(p, "id") ELSE Get(p, "name")
      found == IF Has(p, "id") THEN {r \in RowSet : r.id = ref} ELSE {r \in RowSet : r.id = GetSession(ref)}
  IN  IF Has(p, "a") /\ ref # "" /\ \E r \in found : r.status = "running" THEN Fails(1)
      ELSE Outcome("direct", <<>>, {}, p.rest)
RunNamed(p) ==
  LET operation == Has(p, "fd")
      id == IF Has(p, "id") THEN Get(p, "id") ELSE "fresh"
  IN  CASE ~ValidName(id) -> Fails(IF operation THEN 64 ELSE 1)
        [] ValidName(id) /\ ~operation /\ ~Has(p, "a") /\ (\E r \in RowSet : r.id = id /\ r.status = "running") -> Fails(1)
        [] OTHER -> IF ~Has(p, "noname") /\ Has(p, "name") /\ Get(p, "name") = "" THEN Fails(1)
                    ELSE Outcome(IF operation THEN "operate" ELSE "create", <<id>>, Gave(p), p.rest)
RunRun(args) ==
  LET p == ParseWords(RunTable, "stop", args)
  IN  IF RunArguments(p) # 0 THEN Fails(RunArguments(p))
      ELSE IF ~Has(p, "d") /\ ~EnsureNotNested(Has(p, "force")) THEN RunNested(p)
      ELSE RunNamed(p)

----------------------------------------------------------------------------
(* pty attach; the policy for a dead session goes with the request. *)
AttachTable == Table({<<"--auto-restart", Flag("auto")>>, <<"-r", Flag("auto")>>,
  <<"--no-restart", Flag("never")>>, <<"--force", Flag("force")>>,
  <<"--remote", WordIfBare("remote", "any", "")>>, <<"--attach-stream-fd-v1", Value("fd", "any")>>})
AttachPolicy(p) ==
  CASE Has(p, "fd") \/ Has(p, "never") -> "Never"
    [] ~(Has(p, "fd") \/ Has(p, "never")) /\ Has(p, "auto") -> "Always"
    [] OTHER -> "Prompt"
AttachRun(args) ==
  LET p == ParseWords(AttachTable, "first", args)
  IN  IF p.code # 0 \/ p.pos = <<>> \/ (Has(p, "auto") /\ (Has(p, "never") \/ Has(p, "fd")))
           \/ (Has(p, "fd") /\ Get(p, "fd") # "3") \/ ~EnsureNotNested(Has(p, "force")) THEN Fails(1)
      ELSE IF Has(p, "remote") THEN Outcome("attachremote", p.pos, Gave(p), <<>>)
      ELSE OnRef("attach", p.pos[1], Gave(p) \union {<<"policy", AttachPolicy(p)>>}, <<>>)
PeekTable == Table({<<"--plain", Flag("plain")>>, <<"-p", Flag("plain")>>, <<"--full", Flag("full")>>,
  <<"--follow", Flag("follow")>>, <<"-f", Flag("follow")>>,
  <<"--wait", Option("wait", "any", "skip", "", FALSE, 1)>>, <<"--remote", Value("remote", "plain")>>,
  <<"-t", Maybe("t", "number")>>, <<"--timeout", Maybe("t", "number")>>})
PeekRun(args) ==
  LET p == ParseWords(PeekTable, "last", args)
  IN  IF p.code # 0 \/ p.pos = <<>> \/ (Has(p, "remote") /\ Has(p, "wait")) THEN Fails(1)
      ELSE IF Has(p, "remote") THEN Outcome("peekremote", p.pos, Gave(p), <<>>)
      ELSE OnRef("peek", p.pos[1], Gave(p), <<>>)

(* pty send *)
Without2(s, i) == SubSeq(s, 1, i - 1) \o SubSeq(s, i + 2, Len(s))
Index(s, w) == CHOOSE i \in DOMAIN s : s[i] = w /\ \A j \in 1..(i - 1) : s[j] # w
SendDelay(s) == IF s = <<>> \/ s[1] # "--with-delay" THEN 0
                ELSE IF Len(s) > 1 /\ IsNumber(s[2]) THEN 1 ELSE -1
SeqTable == Table({<<"--seq", Value("seq", "any")>>})
SendItems(s) ==
  LET p == ParseWords(SeqTable, "error", s)
      seq == \E i \in DOMAIN s : s[i] = "--seq"
      text == s # <<>> /\ ~StartsTwo(s[1])
  IN  CASE seq /\ text -> <<>>
        [] seq /\ ~text -> IF p.code # 0 THEN <<>> ELSE [i \in DOMAIN p.got |-> p.got[i][2]]
        [] ~seq -> IF text /\ Len(s) = 1 THEN s ELSE <<>>
SendTo(ref, s, paste, remote) ==
  LET plain == IF SendDelay(s) = 1 THEN SubSeq(s, 3, Len(s)) ELSE s
      got == paste \union (IF SendDelay(s) = 1 THEN {<<"delay", s[2]>>} ELSE {})
  IN  IF SendDelay(s) = -1 \/ "--enter" \in Range(plain) \/ SendItems(plain) = <<>> THEN Fails(1)
      ELSE IF remote # "" THEN Outcome("sendremote", <<ref>>, got \union {<<"remote", remote>>}, SendItems(plain))
      ELSE OnRef("send", ref, got, SendItems(plain))
SendRun(args) ==
  LET i == IF "--remote" \in Range(args) THEN Index(args, "--remote") ELSE 0
      bad == i # 0 /\ (i = Len(args) \/ ~Good("plain", args[i + 1]))
      rest == IF i = 0 \/ bad THEN args ELSE Without2(args, i)
  IN  IF bad \/ rest = <<>> THEN Fails(1)
      ELSE SendTo(rest[1], SelectSeq(Tail(rest), LAMBDA w : w # "--paste"),
                  IF "--paste" \in Range(Tail(rest)) THEN {<<"paste", "">>} ELSE {},
                  IF i = 0 THEN "" ELSE args[i + 1])

(* pty exec: the record of the session it runs in takes the new command. *)
ExecRun(args) ==
  IF "--" \notin Range(args) \/ Index(args, "--") = Len(args) \/ ~Resolves(nested) THEN Fails(1)
  ELSE Outcome("exec", <<nested>>, {}, SubSeq(args, Index(args, "--") + 1, Len(args)))

EventsTable == Table({<<"--all", Flag("all")>>, <<"--recent", Flag("recent")>>, <<"--json", Flag("json")>>,
  <<"--type", Value("type", "any")>>, <<"--wait", WordIfBare("wait", "any", "")>>,
  <<"-t", WordIfBare("t", "any", "")>>, <<"--timeout", WordIfBare("t", "any", "")>>})
(* A deadline only for a positive number: js_parse_float of the word. *)
EventsTimeout(p) == IF JsParseFloat(Get(p, "t")) > 0 THEN {<<"deadline", Get(p, "t")>>} ELSE {}
CmdEvents(p) ==
  LET name == IF p.pos = <<>> THEN <<>> ELSE <<GetSession(p.pos[1])>>
      json == IF Has(p, "json") THEN {<<"json", "">>} ELSE {}
      needed == Has(p, "recent") \/ Has(p, "wait")
  IN  CASE Has(p, "type") /\ ~Has(p, "recent") -> Fails(1)
        [] ~(Has(p, "type") /\ ~Has(p, "recent")) /\ name = <<>> /\ needed -> Fails(1)
        [] OTHER -> IF Has(p, "recent") THEN Outcome("recent", name, json \union {<<"type", Get(p, "type")>>}, <<>>)
                    ELSE IF Has(p, "wait")
                         THEN Outcome("wait", name, json \union EventsTimeout(p) \union {<<"wait", Get(p, "wait")>>}, <<>>)
                    ELSE Outcome("follow", IF Has(p, "all") THEN <<>> ELSE name, json \union EventsTimeout(p), <<>>)
EventsRun(args) ==
  LET p == ParseWords(EventsTable, "first", args)
  IN  IF p.code # 0 \/ (~Has(p, "all") /\ p.pos = <<>>) \/ (p.pos # <<>> /\ ~Resolves(p.pos[1])) THEN Fails(1)
      ELSE CmdEvents(p)

----------------------------------------------------------------------------
(* pty list *)
ExtractFilterTags(args) == ParseWords(Table({<<"--filter-tag", Value("filter", "pair")>>}), "words", args)
ListTable == Table({<<"--status", Value("status", "status")>>, <<"--older-than", Value("older", "duration")>>,
  <<"--newer-than", Value("newer", "duration")>>, <<"--remote", Option("remote", "plain", "bare", "bare", FALSE, 1)>>,
  <<"--json", Flag("json")>>, <<"--strict", Flag("strict")>>, <<"--tags", Flag("tags")>>,
  <<"--summary", Flag("summary")>>, <<"--clients", Flag("clients")>>})
MatchesAllTags(r, filter) == filter = "k=v" => r.tagged
Age(r) == IF r.ended # 0 THEN r.ended ELSE r.created
SelectSessions(p, filter) ==
  SelectSeq(Rows, LAMBDA r :
    /\ MatchesAllTags(r, filter)
    /\ Has(p, "status") => r.status = Get(p, "status")
    /\ Has(p, "older") => Age(r) >= ParseDuration(Get(p, "older"))
    /\ Has(p, "newer") => Age(r) <= ParseDuration(Get(p, "newer")))
Ids(rows) == [i \in DOMAIN rows |-> rows[i].id]
(* How many of each status; the oldest and newest session are presentation. *)
BuildSummary(rows) ==
  {<<"total", Len(rows)>>} \union
  {<<s, Len(SelectSeq(rows, LAMBDA r : r.status = s))>> : s \in {"running", "exited", "vanished"}}
Section(rows, status) == SelectSeq(rows, LAMBDA r : r.status = status)
ListText(rows) == Ids(Section(rows, "running") \o Section(rows, "exited") \o Section(rows, "vanished"))
ListJson(rows) == Ids(rows)
(* The peers' rows come from the remote; "" stands for every relay peer. *)
RemoteListHosts(p) == IF Has(p, "remote") THEN {<<"peer", Get(p, "remote")>>} ELSE {}
CmdList(p, filter) ==
  LET rows == SelectSessions(p, filter)
      strict == Has(p, "strict")
  IN  CASE strict /\ (~Has(p, "json") \/ Has(p, "summary") \/ Has(p, "remote")) -> Fails(1)
        [] ~strict /\ Has(p, "summary") -> Outcome("summary", Ids(rows), BuildSummary(rows), <<>>)
        [] OTHER -> Outcome("list", IF Has(p, "json") THEN ListJson(rows) ELSE ListText(rows),
                            RemoteListHosts(p) \union (IF Has(p, "clients") /\ Has(p, "json") THEN {<<"clients", "">>} ELSE {}),
                            <<>>)
ListRun(args) ==
  LET f == ExtractFilterTags(args)
      p == ParseWords(ListTable, "ignore", f.pos)
  IN  IF f.code # 0 \/ p.code # 0 THEN Fails(1) ELSE CmdList(p, Get(f, "filter"))

(* pty stats: the first word that is no flag is the session. *)
StatsRun(args) ==
  LET named == SelectSeq(args, LAMBDA w : ~StartsDash(w))
      ids == {r.id : r \in {q \in RowSet : q.status = "running" \/ "--all" \in Range(args)}}
  IN  IF named # <<>> THEN OnRef("stats", named[1], {}, <<>>)
      ELSE Outcome("statsall", SetToSortSeq(ids, LAMBDA x, y : Index(Ids(Rows), x) < Index(Ids(Rows), y)), {}, <<>>)

----------------------------------------------------------------------------
(* pty restart, kill, rm, up, down, gc *)
RestartTable == Table({<<"-y", Flag("yes")>>, <<"--yes", Flag("yes")>>, <<"--force", Flag("force")>>})
RestartRun(args) ==
  LET p == ParseWords(RestartTable, "first", args)
  IN  IF p.code # 0 \/ p.pos = <<>> THEN Fails(1) ELSE OnRef("restart", p.pos[1], Gave(p), <<>>)
KillRun(args) == RequireRef("stop", args)
RmRun(args) == RequireRef("remove", args)
(* split_dir_and_names: the words up to the first dash; p holds a pty.toml *)
(* that declares the sessions a and b. *)
Declared == {"a", "b"}
SplitDirAndNames(args) ==
  LET upto == {i \in DOMAIN args : \A j \in 1..i : ~StartsDash(args[j])}
      n == Cardinality(upto)
  IN  IF n > 0 /\ args[1] = "p" THEN [dir |-> "p", names |-> SubSeq(args, 2, n)]
      ELSE [dir |-> "", names |-> SubSeq(args, 1, n)]
ManifestRun(act, args) ==
  LET s == SplitDirAndNames(args)
      chosen == IF s.names = <<>> THEN Declared ELSE Declared \intersect Range(s.names)
  IN  IF s.dir = "" \/ (act = "up" /\ ~(Range(s.names) \subseteq Declared)) THEN Fails(1)
      ELSE Outcome(act, SetToSortSeq(chosen, LAMBDA x, y : x = "a" /\ y = "b"), {}, <<>>)
UpRun(args) == ManifestRun("up", args)
DownRun(args) == ManifestRun("down", args)
GcTable == Table({<<"--interval", WordIfBare("interval", "positiveJs", "error")>>,
  <<"--keep-max-age", WordIfBare("keep", "age", "error")>>, <<"--idle-days", WordIfBare("idle", "positiveJs", "error")>>,
  <<"--fast-fail-window", WordIfBare("window", "positiveJs", "error")>>,
  <<"--fast-fail-limit", WordIfBare("limit", "positiveJs", "error")>>})
GcDry(args) == {"--dry-run", "-n"} \intersect Range(args) # {}
GcRun(args) ==
  LET p == ParseWords(GcTable, "ignore", args)
  IN  CASE p.code # 0 -> Fails(1)
        [] p.code = 0 /\ "--print-launchd-plist" \in Range(args) -> Outcome("plist", <<>>, {}, <<>>)
        [] OTHER -> Outcome(IF GcDry(args) THEN "plan" ELSE "sweep", <<>>, Gave(p), <<>>)

----------------------------------------------------------------------------
(* pty tag, tag-multi, rename, emit *)
Pairs(pos) == SelectSeq(pos, HasEquals)
ParseOps(args) == ParseWords(Table({<<"--rm", Value("rm", "some")>>}), "words", args)
TagRun(args) ==
  LET p == ParseOps(Tail(args))
  IN  IF args = <<>> THEN Fails(1)
      ELSE IF ~Resolves(args[1]) \/ p.code # 0 \/ ~(Range(p.pos) \subseteq {"k=v"}) THEN Fails(1)
      ELSE Outcome(IF p.pos = <<>> /\ ~Has(p, "rm") THEN "showtags" ELSE "settags",
                   <<GetSession(args[1])>>, Gave(p), p.pos)
TagMultiTable == Table({<<"--all", Flag("all")>>, <<"--json", Flag("json")>>, <<"--yes", Flag("yes")>>,
  <<"-y", Flag("yes")>>, <<"-h", Stop(0)>>, <<"--filter-tag", Value("filter", "keyed")>>, <<"--rm", Value("rm", "some")>>})
TagMultiNames(p) == SelectSeq(p.pos, LAMBDA w : ~HasEquals(w))
TagMultiTargets(p) ==
  IF Has(p, "all") THEN Ids(Rows)
  ELSE IF Has(p, "filter") THEN Ids(SelectSeq(Rows, LAMBDA r : r.tagged))
  ELSE [i \in DOMAIN TagMultiNames(p) |-> GetSession(TagMultiNames(p)[i])]
Selectors(p) == (IF Has(p, "all") THEN 1 ELSE 0) + (IF Has(p, "filter") THEN 1 ELSE 0)
                + (IF TagMultiNames(p) # <<>> THEN 1 ELSE 0)
(* Mutant: a write to every session asks for no --yes. *)
TagMultiUnconfirmed(p) ==
  LET write == Has(p, "rm") \/ Pairs(p.pos) # <<>>
  IN  CASE p.code # 0 \/ "=v" \in Range(p.pos) \/ Selectors(p) # 1 -> Fails(1)
        [] OTHER -> IF NoSession \in Range(TagMultiTargets(p)) THEN Fails(1)
                    ELSE Outcome(IF write THEN "settags" ELSE "showtags", TagMultiTargets(p), Gave(p), Pairs(p.pos))
TagMulti(p) ==
  LET write == Has(p, "rm") \/ Pairs(p.pos) # <<>>
  IN  CASE p.code # 0 \/ "=v" \in Range(p.pos) \/ Selectors(p) # 1 -> Fails(1)
        [] OTHER -> IF NoSession \in Range(TagMultiTargets(p)) \/ (Has(p, "all") /\ write /\ ~Has(p, "yes")) THEN Fails(1)
                    ELSE Outcome(IF write THEN "settags" ELSE "showtags", TagMultiTargets(p), Gave(p), Pairs(p.pos))
TagMultiRun(args) ==
  LET p == ParseWords(TagMultiTable, "words", args)
  IN  IF p.done /\ p.code = 0 THEN Prints ELSE TagMulti(p)
RenameTable == Table({<<"--show", Flag("show")>>, <<"--clear", Flag("clear")>>, <<"-h", Stop(0)>>})
RenameSets(p) ==
  LET ref == IF Len(p.pos) = 2 THEN p.pos[1] ELSE nested
      dn == Last(p.pos)
  IN  IF Len(p.pos) \notin {1, 2} THEN Fails(1)
      ELSE IF dn = "" \/ (Len(p.pos) = 1 /\ nested = "") THEN Fails(1)
      ELSE OnRef("rename", ref, {}, <<dn>>)
RenameRun(args) ==
  LET p == ParseWords(RenameTable, "words", args)
  IN  CASE p.done -> Prints
        [] ~p.done /\ Has(p, "show") -> IF Len(p.pos) # 1 THEN Fails(1) ELSE OnRef("showname", p.pos[1], {}, <<>>)
        [] ~p.done /\ ~Has(p, "show") /\ Has(p, "clear") ->
             IF Len(p.pos) > 1 \/ (p.pos = <<>> /\ nested = "") THEN Fails(1)
             ELSE OnRef("clearname", IF p.pos = <<>> THEN nested ELSE p.pos[1], {}, <<>>)
        [] ~p.done /\ ~Has(p, "show") /\ ~Has(p, "clear") -> RenameSets(p)
EmitTable == Table({<<"--json", WordIfBare("json", "any", "")>>, <<"--text", WordIfBare("text", "any", "")>>,
                    <<"-h", Stop(0)>>})
EmitRun(args) ==
  LET p == ParseWords(EmitTable, "words", args)
      ref == IF Len(p.pos) = 2 THEN p.pos[1] ELSE nested
  IN  CASE p.done -> Prints
        [] OTHER -> IF Len(p.pos) \notin {1, 2} \/ ref = "" THEN Fails(1)
                    ELSE IF Has(p, "json") /\ ~IsNumber(Get(p, "json")) THEN Fails(1)
                    ELSE OnRef("emit", ref, Gave(p), <<Last(p.pos)>>)

----------------------------------------------------------------------------
(* The commands programs use: one --id, and every word accounted for. *)
IdTable == Table({<<"--id", Once("id", "some", 1)>>})
Leaf(args) == Len(args) > 1 /\ args[2] = "-h"
LeafRun(verbs, acts, args) ==
  LET p == ParseWords(IdTable, "error", Tail(args))
  IN  CASE args = <<>> -> Fails(1)
        [] args # <<>> /\ args[1] \notin verbs -> Fails(1)
        [] args # <<>> /\ args[1] \in verbs ->
             IF Leaf(args) THEN Prints
             ELSE IF p.code # 0 \/ ~Has(p, "id") \/ ~ValidName(Get(p, "id")) THEN Fails(1)
             ELSE Outcome(acts[args[1]], <<Get(p, "id")>>, {}, <<>>)
MetadataRun(args) == LeafRun({"patch", "cas"}, [patch |-> "patch", cas |-> "castag"], args)
ReadinessRun(args) ==
  IF Leaf(args) /\ Len(args) # 2 THEN Fails(1)
  ELSE LeafRun({"ownership", "cas"}, [ownership |-> "ownership", cas |-> "caslife"], args)
EvidenceTable == Table({<<"--id", Once("id", "some", 1)>>, <<"--expected-generation", Once("generation", "some", 1)>>})
EvidenceRun(args) ==
  LET p == ParseWords(EvidenceTable, "error", Tail(args))
  IN  CASE args = <<>> -> Fails(1)
        [] args # <<>> /\ args[1] \notin {"snapshot", "remove"} -> Fails(1)
        [] OTHER ->
             IF Leaf(args) /\ Len(args) = 2 THEN Prints
             ELSE IF p.code # 0 \/ ~ValidName(Get(p, "id")) \/ (Has(p, "generation") # (args[1] = "remove")) THEN Fails(1)
             ELSE Outcome(IF args[1] = "remove" THEN "removegeneration" ELSE "evidence", <<Get(p, "id")>>, Gave(p), <<>>)
PubTable(verb) ==
  Table({<<"--json", Once("json", "", 1)>>}
        \union (IF verb = "identity" THEN {} ELSE {<<"--id", Once("id", "value", 1)>>, <<"--operation", Once("operation", "oneDash", 1)>>})
        \union (IF verb # "install" THEN {} ELSE {<<"--binding", Once("binding", "value", 1)>>,
                  <<"--intent", Once("intent", "value", 1)>>, <<"--root-id", Once("root", "value", 1)>>}))
PubNeeds(verb) ==
  CASE verb = "identity" -> {"json"}
    [] verb = "read" -> {"id", "operation", "json"}
    [] verb = "install" -> {"id", "operation", "json", "binding", "intent", "root"}
PubAct == [identity |-> "pubidentity", install |-> "pubinstall", read |-> "pubread"]
PubTwice(args) == Len(SelectSeq(args, LAMBDA w : w = "--json")) > 1
PubRun(args) ==
  IF args = <<>> THEN Fails(1)
  ELSE IF args[1] \notin {"identity", "install", "read"} THEN Fails(1)
  ELSE LET p == ParseWords(PubTable(args[1]), "error", Tail(args))
       IN  IF p.code # 0 \/ PubTwice(args) \/ (\E k \in PubNeeds(args[1]) : ~Has(p, k)) THEN Fails(1)
           ELSE Outcome(PubAct[args[1]], IF Has(p, "id") THEN <<Get(p, "id")>> ELSE <<>>, Gave(p), <<>>)
OperationTable == Table({<<"--json", Flag("json")>>, <<"--envelope-sha256", Once("sha", "any", 64)>>,
  <<"--request-id", Once("request", "any", 64)>>, <<"--incarnation", Once("incarnation", "any", 64)>>})
OperationParse(args) == ParseWords(OperationTable, "values", args)
OperationId(p) == IF Len(p.pos) = 1 THEN p.pos[1] ELSE ""
OperationVerb(verb, p) ==
  CASE p.code # 0 \/ ~Has(p, "json") -> Fails(64)
    [] p.code = 0 /\ Has(p, "json") /\ verb = "reserve" ->
         IF p.pos # <<>> THEN Fails(64) ELSE Outcome("reserve", <<>>, Gave(p), <<>>)
    [] OTHER ->
         IF OperationId(p) = "" \/ (verb # "show" /\ ~IsDigest(Get(p, "sha")))
            \/ (verb = "settle" /\ (Has(p, "request") \/ Has(p, "incarnation")))
            \/ (verb = "retire" /\ Get(p, "request") = "") THEN Fails(64)
         ELSE Outcome(verb, p.pos, Gave(p), <<>>)
OperationRun(args) ==
  CASE args = <<>> -> Fails(64)
    [] args # <<>> /\ (args[1] = "-h" \/ (Len(args) = 2 /\ Leaf(args))) -> Prints
    [] OTHER -> IF args[1] \notin {"reserve", "show", "settle", "retire"} THEN Fails(64)
                ELSE OperationVerb(args[1], OperationParse(Tail(args)))
RootRun(args) ==
  IF args = <<>> \/ args = <<"--json">> THEN Outcome("root", <<>>, {<<"words", Len(args)>>}, <<>>) ELSE Fails(1)
CapabilitiesRun(args) ==
  CASE args \in {<<>>, <<"--json">>} -> Outcome("capabilities", <<>>, {<<"words", Len(args)>>}, <<>>)
    [] args = <<"-h">> -> Prints
    [] OTHER -> Fails(64)
CompletionsRun(args) ==
  CASE args = <<>> -> Fails(2)
    [] args # <<>> /\ args[1] = "-h" -> Prints
    [] OTHER -> IF args[1] = "bash" THEN Outcome("script", <<>>, {}, <<>>) ELSE Fails(2)
RemoteServeRun(args) == IF "--stdio" \in Range(args) THEN Outcome("serve", <<>>, {}, <<>>) ELSE Fails(1)

----------------------------------------------------------------------------
(* The picker opens when no command is named. *)
Interactive(args) ==
  LET f == ExtractFilterTags(args)
      force == "--force" \in Range(args)
  IN  IF f.code # 0 \/ ~EnsureNotNested(force) THEN Fails(1)
      ELSE Outcome("interactive", <<>>, Gave(f), <<>>)
(* An unknown command is looked for on the PATH as pty-<command>. *)
ForwardOrUnknown(command) == Fails(1)
(* The words a command parses are the arguments after the first one. *)
Run(command, args) ==
  LET rest == Tail(args)
  IN  CASE command = "run" -> RunRun(rest)
        [] command = "attach" -> AttachRun(rest)
        [] command = "exec" -> ExecRun(rest)
        [] command = "peek" -> PeekRun(rest)
        [] command = "send" -> SendRun(rest)
        [] command = "events" -> EventsRun(rest)
        [] command = "list" -> ListRun(args)
        [] command = "remote-serve" -> RemoteServeRun(rest)
        [] command = "stats" -> StatsRun(rest)
        [] command = "restart" -> RestartRun(rest)
        [] command = "kill" -> KillRun(rest)
        [] command = "rm" -> RmRun(rest)
        [] command = "gc" -> GcRun(rest)
        [] command = "tag" -> TagRun(rest)
        [] command = "tag-multi" -> TagMultiRun(rest)
        [] command = "emit" -> EmitRun(rest)
        [] command = "up" -> UpRun(rest)
        [] command = "down" -> DownRun(rest)
        [] command = "rename" -> RenameRun(rest)
        [] command = "metadata" -> MetadataRun(rest)
        [] command = "readiness" -> ReadinessRun(rest)
        [] command = "evidence" -> EvidenceRun(rest)
        [] command = "capabilities" -> CapabilitiesRun(rest)
        [] command = "operation" -> OperationRun(rest)
        [] command = "publication-revocation" -> PubRun(rest)
        [] command = "completions" -> CompletionsRun(rest)
        [] command = "root" -> RootRun(rest)
        [] command = "interactive" -> Interactive(args)
        [] OTHER -> ForwardOrUnknown(command)
(* Mutant: --root is looked for among the child's words as well. *)
CommandEndLate(args) == Len(args)
(* --root is one of pty's own words only before the first --. *)
CommandEnd(args) == IF "--" \in Range(args) THEN Index(args, "--") - 1 ELSE Len(args)
Command(args) ==
  LET s == SelectSeq(args, LAMBDA w : w \notin {"--preselect-new", "--force"})
  IN  IF s = <<>> THEN Interactive(args)
      ELSE IF Len(args) > 1 /\ args[2] = "-h" /\ s[1] \in Commands THEN Prints
      ELSE Run(s[1], args)
Dispatch(args) ==
  LET own == SubSeq(args, 1, CommandEnd(args))
      i == IF "--root" \in Range(own) THEN Index(own, "--root") ELSE 0
  IN  CASE i = 0 -> Command(args)
        [] i # 0 -> IF i = Len(args) THEN Fails(1)
                    ELSE IF StartsDash(args[i + 1]) THEN Fails(1) ELSE Command(Without2(args, i))

----------------------------------------------------------------------------
Nothing == Outcome("typing", <<>>, {}, <<>>)
(* What a user types: an option with or without its value, a name, the *)
(* words of a child command. *)
TableOf(command) ==
  CASE command = "run" -> RunTable [] command = "attach" -> AttachTable [] command = "peek" -> PeekTable
    [] command = "send" -> SeqTable [] command = "events" -> EventsTable [] command = "list" -> ListTable
    [] command = "restart" -> RestartTable [] command = "gc" -> GcTable [] command = "tag-multi" -> TagMultiTable
    [] command = "emit" -> EmitTable [] command = "rename" -> RenameTable [] command = "evidence" -> EvidenceTable
    [] command = "publication-revocation" -> PubTable("install") [] command = "operation" -> OperationTable
    [] OTHER -> IdTable
Extra(command) ==
  CASE command = "send" -> {<<"--paste">>, <<"--remote", "p">>, <<"--with-delay", "3">>, <<"--enter">>, <<"x">>}
    [] command = "run" -> {<<"--", "x">>, <<"--root", "p">>, <<"--", "-d">>}
    [] command = "exec" -> {<<"--", "x">>, <<"--">>, <<"x">>}
    [] command = "gc" -> {<<"--dry-run">>, <<"--print-launchd-plist">>, <<"7d">>}
    [] command \in {"tag", "tag-multi"} -> {<<"k=v">>, <<"=v">>, <<"--rm", "role">>, <<"--filter-tag", "k=v">>}
    [] command = "list" -> {<<"--filter-tag", "k=v">>, <<"--older-than", "7d">>, <<"--newer-than", "7d">>, <<"--status", "running">>}
    [] command \in {"up", "down"} -> {<<"p">>, <<"b">>, <<"-z">>}
    [] command = "stats" -> {<<"--all">>, <<"--json">>}
    [] command \in {"metadata", "readiness", "evidence"} ->
         {<<v>> : v \in {"patch", "cas", "ownership", "snapshot", "remove", "-h"}}
    [] command = "publication-revocation" -> {<<v>> : v \in {"identity", "install", "read", "--json"}}
    [] command = "operation" -> {<<v>> : v \in {"reserve", "show", "settle", "retire", "-h"}}
    [] command = "completions" -> {<<"bash">>, <<"-h">>}
    [] command = "remote-serve" -> {<<"--stdio">>}
    [] OTHER -> {<<"--json">>}
Sample(kind) == CASE kind \in {"pair", "keyed"} -> "k=v" [] kind = "status" -> "running"
                  [] kind \in {"duration", "age"} -> "7d" [] OTHER -> "3"
Phrases(command) ==
  {<<"a">>, <<"u">>} \union Extra(command)
  \union (IF Cardinality(DOMAIN TableOf(command)) > 6 THEN {} ELSE {<<"--force">>, <<"--root", "p">>})
  \union {<<k>> : k \in DOMAIN TableOf(command)}
  \union {<<k, Sample(TableOf(command)[k].arg)>> : k \in {j \in DOMAIN TableOf(command) : TableOf(command)[j].arg # ""}}
(* Long command lines are begun for the user. *)
Openings(command) ==
  {<<command>>} \union
  (CASE command = "run" ->
          {<<"run", "-d", "--id", "u", "--operation-fd", "3", "--launch-operation", "sha", "--", "x">>,
           <<"run", "-d", "--id", "u", "--publication-operation", "x", "--publication-binding", "sha",
             "--publication-root-id", "x">>,
           <<"run", "--lifecycle-tag", "k", "--startup-timeout-ms", "3">>}
     [] command = "publication-revocation" ->
          {<<command, "install", "--id", "a", "--operation", "x", "--binding", "sha", "--intent", "x">>}
     [] command = "operation" -> {<<command, v, "x", "--json", "--envelope-sha256", "sha">> : v \in {"settle", "retire"}}
     [] command = "evidence" -> {<<command, "remove", "--id", "a">>}
     [] OTHER -> {})

(* Bound: a command with many options is given a word less. *)
Room(command) == IF Cardinality(DOMAIN TableOf(command)) > 6 THEN MaxWords - 1 ELSE MaxWords

CommandInit ==
  /\ words \in UNION {Openings(c) : c \in Commands} \union {<<>>}
  /\ nested \in {"", "a"}
  /\ outcome = Nothing
Types(phrase) ==
  /\ outcome = Nothing /\ words # <<>>
  /\ words' = words \o phrase
  /\ UNCHANGED <<nested, outcome>>
Enters == outcome = Nothing /\ outcome' = Dispatch(words) /\ UNCHANGED <<words, nested>>
(* The words typed beyond the opening. *)
Typed == IF words = <<>> THEN 0
         ELSE LET n == CHOOSE n \in {Len(o) : o \in {q \in Openings(words[1]) : IsPrefix(q, words)}} :
                         \A o \in {q \in Openings(words[1]) : IsPrefix(q, words)} : Len(o) <= n
              IN  Len(words) - n
CommandNext ==
  \/ /\ outcome = Nothing /\ words # <<>> /\ words[1] \in Commands
     /\ LET left == Room(words[1]) - Typed
        IN  left > 0 /\ \E phrase \in Phrases(words[1]) : Len(phrase) <= left /\ Types(phrase)
  \/ Enters
CommandSpec == CommandInit /\ [][CommandNext]_cmdvars

----------------------------------------------------------------------------
CommandTypeOK ==
  /\ nested \in {"", "a"} /\ outcome.exit \in {0, 1, 2, 64}
  /\ outcome.exit # 0 => outcome.act = "none"
Entered == outcome # Nothing
(* The child command receives the words after -- as they were typed, and a *)
(* command that changes a session changes one that a word of its own named *)
(* (by id or by a display name only it has) or the one it runs in; tags on *)
(* every session need --yes (cli/mod.rs dispatch, run.rs, tag_multi.rs). *)
ChildWordsKept ==
  \A i \in 2..Len(words) :
    /\ words[i] = "--" /\ words[i - 1] \notin (DOMAIN RunTable \ {"-d"}) /\ "--" \notin Range(SubSeq(words, 1, i - 1))
    /\ outcome.act \in {"direct", "create", "operate", "exec"}
    => IsSuffix(SubSeq(words, i + 1, Len(words)), outcome.words)
Changes == {"stop", "remove", "restart", "settags", "rename", "clearname", "emit", "exec"}
ChangesNamed ==
  outcome.act \in Changes =>
    \A s \in Range(outcome.on) :
      \/ \E i \in 2..Len(words) : GetSession(words[i]) = s
      \/ s = nested /\ outcome.act \in {"rename", "clearname", "emit", "exec"}
      \/ outcome.act = "settags" /\ ({"--yes", "-y"} \intersect Range(words) # {} \/ ("--filter-tag" \in Range(words) /\ Row(s).tagged))
WordsReachTarget == ChildWordsKept /\ ChangesNamed

(* In the commands that check their words, no word is passed over: without *)
(* it the command does something else or fails (attach, restart, events, *)
(* send, metadata, readiness, evidence, publication-revocation, operation, *)
(* root, capabilities).  Words given twice, and a name beside --all, may *)
(* be redundant. *)
Strict == {"attach", "restart", "events", "send", "metadata", "readiness", "evidence",
           "publication-revocation", "operation", "root", "capabilities"}
Synonyms == {{"-r", "--auto-restart"}, {"-y", "--yes"}, {"-t", "--timeout"}, {"--all", "a"}, {"--all", "u"}, {"a", "u"}}
EveryWordCounts ==
  Entered /\ outcome.exit = 0 /\ outcome.act # "help" /\ words # <<>> /\ words[1] \in Strict
  /\ (\A i, j \in DOMAIN words : i # j => words[i] # words[j] /\ {words[i], words[j]} \notin Synonyms)
  => \A i \in 2..Len(words) : words[i] \in {"--root", "p", "--force", "--seq"} \/ Dispatch(RemoveAt(words, i)) # outcome

(* The forms of a listing agree: the sections of the text show the *)
(* sessions the JSON shows, each once (cli/list.rs cmd_list). *)
ListFormsAgree ==
  Entered /\ outcome.act = "list" /\ "--json" \notin Range(words) =>
    /\ Range(outcome.on) = Range(Dispatch(Append(words, "--json")).on)
    /\ Cardinality(Range(outcome.on)) = Len(outcome.on)
=============================================================================
