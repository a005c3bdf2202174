----------------------------- MODULE MCServices -----------------------------
(* A small instance of Services.                                             *)
EXTENDS Services

(* A workflow of two tasks, cleaned up by count or by age, and a backup that *)
(* a version without workflows made.                                         *)
Two == {"root", "child"}
Chain == [t \in Two |-> "root"]
RetriedOrDone == {"RETRY", "SUCCESS"}
ByCountOrAge == {[count |-> 1, hours |-> NoLimit], [count |-> NoLimit, hours |-> 1]}
OldBackup == {[t \in Two |-> [state |-> "FAILURE", last |-> 0, rooted |-> FALSE, workflow |-> t]]}

(* Arguments as JSON, Python and Celery write them: quotes, backslashes, a    *)
(* pair inside a string, a number, a list, an object; and bytes or a custom  *)
(* __repr__, in which nobody escapes a quote.                                *)
Str(body) == <<"string", body>>
Num(digits) == <<"number", digits>>
RECURSIVE Write(_, _)
Write(source, v) ==
    LET Joined(Each(_)) == FlattenSeq([k \in DOMAIN v[2] |-> (IF k = 1 THEN <<>> ELSE <<",", " ">>) \o Each(v[2][k])])
        Pair(e) == Write(source, e[1]) \o <<":", " ">> \o Write(source, e[2])
    IN  CASE v[1] = "string" -> StringOf(source, v[2])
          [] v[1] \in {"number", "opaque"} -> v[2]
          [] v[1] = "bool" -> <<IF source = "json" THEN "true" ELSE "True">>
          [] v[1] = "null" -> <<IF source = "json" THEN "null" ELSE "None">>
          [] v[1] = "list" -> <<"[">> \o Joined(LAMBDA e : Write(source, e)) \o <<"]">>
          [] v[1] = "object" -> <<"{">> \o Joined(Pair) \o <<"}">>

Bodies == {<<>>, <<"a">>, <<"1">>, <<"'">>, <<"\"">>, <<"\\">>, <<"\\", "'">>, <<"'", "\"">>, <<"nl">>}
Common ==
    {Str(body) : body \in Bodies} \cup
    {Num(<<"1">>), <<"bool", TRUE>>, <<"null", "null">>, <<"list", <<Str(<<"a">>), Num(<<"1">>)>>>>,
     <<"object", <<<<Str(<<"b">>), Num(<<"2">>)>>>>>>}
Confusing ==
    {Str(<<"\\">>),
     Str(<<"'", ",", " ", "\"", "a", "\"", ":", " ", "1", ",">>)}
Opaques == {<<"opaque", <<"b", "'", "a", "'", "n", "'">>>>, <<"opaque", <<"<", "a", "'", ">">>>>}

Called(source, pairs) ==
    [pairs |-> [k \in DOMAIN pairs |-> <<pairs[k][1][2], pairs[k][2]>>],
     source |-> source, raw |-> Write(source, <<"object", pairs>>)]
A(v) == <<Str(<<"a">>), v>>
B(v) == <<Str(<<"b">>), v>>
N(v) == <<Str(<<"n">>), v>>
Arguments ==
    {Called(source, <<A(v), B(w)>>) : source \in Writers, v \in Common, w \in Confusing} \cup
    {Called("saferepr", <<A(v), B(o)>>) : v \in Common, o \in Opaques} \cup
    {Called("saferepr", <<A(o), N(v), B(u)>>) : v \in {Num(<<"1">>), Str(<<"'">>)}, o \in Opaques, u \in Opaques}

Typing(key, v, source) == [key |-> key, value |-> v, typed |-> key \o <<"=">> \o Write(source, v)]
Unquoted(body) == [key |-> <<"a">>, value |-> Str(body), typed |-> <<" ", "a", " ", "=">> \o body]
PairsAndTexts ==
    {Typing(<<"a">>, v, source) : v \in Common, source \in {"json", "repr"}} \cup
    {Typing(key, v, "repr") : key \in {<<"b">>, <<"n">>}, v \in Confusing \cup {Num(<<"1">>), Num(<<"2">>)}} \cup
    {Unquoted(body) : body \in {<<"a">>, <<"'">>, <<"\\">>, <<"[", "[", "[">>}}

(* One task's text may change, the other's be there or not.                  *)
Texts == <<{"x", "y"}, {"x"}>>

(* The second of three rows is too long to be answered with another.         *)
Sizes == <<1, 2, 1>>

(* A task that runs, one that may, one that failed and one that recovered;   *)
(* a worker that answered late, and one that did not answer all.             *)
Reported(name, state, error, sign, seen) ==
    [name |-> name, state |-> state, error |-> error, sign |-> sign, seen |-> seen,
     last |-> IF state = "FAILURE" THEN 1 ELSE 2]
Rows ==
    {Reported(1, "STARTED", FALSE, "active", 2), Reported(1, "STARTED", FALSE, "active", 1),
     Reported(2, "FAILURE", TRUE, "none", 0), Reported(2, "SUCCESS", TRUE, "none", 0)}
Asked(there, ids, observed) == [there |-> there, tasks |-> ids, observed |-> observed]
Polled ==
    {<<Asked(TRUE, <<1>>, 3), Asked(TRUE, <<2>>, 0), Asked(TRUE, <<>>, 3)>>,
     <<Asked(TRUE, <<1>>, 3), Asked(FALSE, <<>>, -1), Asked(TRUE, <<2>>, 3)>>}

(* One account of each role; policies by task, by worker and by payload.     *)
Accounts == {"v", "o", "a"}
Roles == "v" :> "viewer" @@ "o" :> "operator" @@ "a" :> "administrator"
Scopes == {EmptyScope,
           [EmptyScope EXCEPT !.tasks = {"t"}],
           [EmptyScope EXCEPT !.workers = {"w"}, !.deny = {"task.input.read"}],
           [EmptyScope EXCEPT !.deny = {"task.failure.read"}]}

(* A password is rotated and an account dropped, or OIDC takes over.         *)
Users == {"ann", "ben"}
Accounted(role, word) ==
    [secret |-> 1, mode |-> "basic", roles |-> "ann" :> {role} @@ "ben" :> {"viewer"},
     password |-> "ann" :> word @@ "ben" :> 9]
Deployments ==
    {Accounted("operator", 7),
     [Accounted("operator", 8) EXCEPT !.roles["ben"] = {}],
     [secret |-> 1, mode |-> "oidc", password |-> 0,
      roles |-> "staff" :> {"viewer"} @@ "other" :> {}]}

(* One of four deployments, and any two settings more.                       *)
Give(setting, source, value) == [setting |-> setting, source |-> source, value |-> value]
ValuesOf(s) ==
    IF s \in {"ttl", "heartbeat", "storage", "mode", "database", "enabled", "ingester"}
    THEN 1 .. 2 ELSE {1}
Signed == {Give("accounts", "toml", 1), Give("session", "env", 1), Give("public", "toml", 1)}
Deployed ==
    {{}, Signed, Signed \cup {Give("root", "env", 1), Give("url", "toml", 1)},
     (Signed \ {Give("accounts", "toml", 1)}) \cup {Give("oidc", "toml", 1)},
     {Give("external", "legacy", 1), Give("ingester", "legacy", 1), Give("root", "env", 1)}}
Gifts == UNION {UNION {{Give(s, o, v) : v \in ValuesOf(s)} : o \in Sources[s]} : s \in Setting}
Pairs == {b \cup {g, h} : b \in Deployed, g \in Gifts, h \in Gifts}
Operators ==
    {i \in Pairs : \A g, h \in i : g.setting = h.setting /\ g.source = h.source => g = h}
=============================================================================
