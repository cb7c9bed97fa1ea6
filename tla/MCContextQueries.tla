--------------------------- MODULE MCContextQueries ---------------------------
(* Instances of ContextQueries for TLC; see README.md for what they ask.   *)
EXTENDS ContextQueries, TLC

CONSTANTS none, api, cli    \* the empty string and two terms, one inside the other

TwoKinds == <<"decision", "pattern">>
ApiInCli == {<<none, none>>, <<none, api>>, <<none, cli>>, <<api, api>>, <<cli, cli>>, <<api, cli>>}

Plain(i, kind, date, size) ==
    [id |-> i, kind |-> kind, date |-> date, size |-> size,
     tags |-> {}, topic |-> {none}, text |-> {none}]
PlainRecord(i, size) ==
    [id |-> i, created |-> i, size |-> size, domain |-> api, problem |-> api, type |-> api,
     tech |-> {}, patterns |-> {}, lessons |-> {none}, skills |-> <<>>]

(* For the section: kinds, dates and sizes; of which entries the kinds are *)
(* makes no difference, only of how many.                                  *)
KindsOfThree == {[i \in 1 .. 3 |-> IF i <= n THEN "decision" ELSE "pattern"] : n \in 0 .. 3}

ToCompile ==
    {[entries |-> {Plain(i, k[i], d[i], z[i]) : i \in 1 .. 3},
      records |-> {PlainRecord(i, y[i]) : i \in 1 .. 2}] :
        k \in KindsOfThree, d \in [1 .. 3 -> 1 .. 2],
        z \in [1 .. 3 -> 1 .. 3], y \in [1 .. 2 -> 1 .. 2]}

(* For recommendations: what terms an entry and a record hold. *)
ToRecommend ==
    {[entries |-> {[Plain(1, "decision", 1, 1) EXCEPT !.tags = tags,
                                         !.topic = topic, !.text = topic \cup words],
                   [Plain(2, "pattern", 1, 1) EXCEPT !.tags = {cli}]},
      records |-> {[PlainRecord(1, 1) EXCEPT !.domain = domain, !.problem = problem, !.type = cli,
                                       !.tech = tech,
                           !.lessons = {none} \cup IF cli \in tech THEN {api, cli} ELSE tech]}] :
        tags \in SUBSET {api, cli}, topic \in {{none}, {none, api}},
        words \in {{}, {api, cli}}, domain \in {none, api}, problem \in {api, cli},
        tech \in SUBSET {api, cli}}

(* For recall: what skills the records used, and when. *)
ToRecall ==
    {[entries |-> {},
      records |-> {[PlainRecord(i, 1) EXCEPT !.created = c[i], !.skills = s[i], !.type = t[i]] :
                     i \in 1 .. 3}] :
        c \in {<<1, 2, 3>>, <<2, 1, 1>>}, t \in [1 .. 3 -> {api, cli}],
        s \in [1 .. 3 -> {<<api>>, <<api, cli>>, <<cli, api, cli>>}]}

(* No files of artifacts and no sessions. *)
Bare(bases) ==
    {b @@ [board |-> <<>>, disk |-> [p \in Paths |-> Absent], sessions |-> {}] : b \in bases}

(* For the board: two documents and a file elsewhere, at most two listed.  *)
Dates == {NoDate} \cup {[figures |-> 1, form |-> f] : f \in {"utc", "local", "other", "unquoted"}}
Files == {Absent, Garbled} \cup [status : {"draft", "review", "final"}, date : Dates]
References == [path : {"docs/a.md", "src/b.md"}, status : {"draft", "review"}, date : {0, 1, 2}]
Second == [path : {"docs/a.md", "src/b.md"}, status : {"review"}, date : {0}]
ToSync ==
    {[entries |-> {}, records |-> {}, board |-> l, sessions |-> {},
      disk |-> ("docs/a.md" :> f @@ "docs/c.md" :> g @@ "src/b.md" :> [status |-> "review", date |-> NoDate])] :
        l \in {<<>>} \cup {<<r>> : r \in References} \cup {<<r, q>> : r \in References, q \in Second},
        f \in Files, g \in {Absent, Garbled, [status |-> "draft", date |-> NoDate]}}

(* For extraction: as many artifacts as there is room for, and one more.   *)
ToExtract ==
    {[entries |-> {}, records |-> {}, board |-> <<>>, disk |-> [p \in Paths |-> Absent],
      sessions |-> [tags : {"list", "none", "no_list"}, artifacts : {0, 1, 2, 4, 5, 6},
                    problem_domain : BOOLEAN, pack_id : BOOLEAN, topic : BOOLEAN,
                    node : BOOLEAN]]}

AllBases == Bare(ToCompile \cup ToRecommend \cup ToRecall) \cup ToSync \cup ToExtract

Words == {<<>>, <<api>>, <<api, cli>>, <<cli, cli>>}
AllQueries == [words : Words, tags : {<<>>, <<cli>>}, domain : {none, api}]
AllHints == [type : {none, api}, problem : {none, api}, skill : {none, api}]
              \ {[type |-> none, problem |-> none, skill |-> none]}
=============================================================================
