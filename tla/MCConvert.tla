----------------------------- MODULE MCConvert -----------------------------
(* Names "x", "x=y", "x-y", the empty name and the groups'; five things a    *)
(* url may yield; requests that differ in one or two options each.           *)
EXTENDS Convert

CONSTANTS x, xEqY, xDashY, empty, direct, g1, g2, e1, e2

MCBases == {x, xEqY, xDashY, empty, direct, g1, g2}
MCNoEq  == [b \in MCBases |-> IF b = xEqY THEN xDashY ELSE b]
MCMinInt == -8

Same    == [b \in MCBases |-> b]

N(base, kind) == [name |-> PlainName(base), kind |-> kind]
X2 == [name |-> Numbered(PlainName(x), 2), kind |-> "ss"]     \* "x 2"

Source(kind, ns, info) == [kind |-> kind, nodes |-> ns, info |-> info]
Info(total, expire) == [total |-> total, expire |-> expire]

MCSources ==
    {Source("sub", <<X2, N(x, "ss")>>, Info(2, None)),
     Source("sub", <<N(xEqY, "unsupported"), N(x, "ssr")>>, None),
     Source("sub", <<N(x, "deprecated"), N(xEqY, "ss")>>, Info(3, 1)),
     Source("link", <<N(xDashY, "ss")>>, None),
     Source("null", <<N(empty, "unsupported")>>, None)}

Part(form, neg, lo, hi) == [neg |-> neg, form |-> form, lo |-> lo, hi |-> hi]
Exact(n) == Part("exact", FALSE, n, n)

ByName(names) == Rule("name", <<>>, names)
ById(range, find) == Rule("groupid", range, find)
ByInsert(range, find) == Rule("insert", range, find)
Literal(base) == Rule("inline", <<>>, base)
Emoji(rule, replace) == [rule |-> rule, replace |-> replace]
Group(name, provider, rules) == [name |-> name, provider |-> provider, rules |-> rules]
BaseGroup(name) == [name |-> name, provider |-> FALSE, proxies |-> <<PlainName(x)>>]

R0 == [inserts |-> 1, mains |-> 2, prepend_insert |-> TRUE, skip_failed_links |-> TRUE,
       exclude |-> {}, include |-> {}, filter_script |-> FALSE, sort |-> FALSE,
       rename |-> Same,
       emoji |-> <<Emoji(ById(<<Exact(1)>>, {xEqY}), e1),
                   Emoji(ById(<<Part("range", TRUE, 0, 1)>>, None), e2)>>,
       append_info |-> TRUE, append_info_n |-> None, sub_info |-> None,
       append_type |-> FALSE, filter_deprecated |-> FALSE, clash_r |-> FALSE,
       nodelist |-> FALSE, base |-> <<>>,
       groups |-> <<Group(g1, FALSE, <<ById(<<Exact(0)>>, None), Literal(g2)>>),
                    Group(g2, FALSE, <<ByName({xEqY, xDashY})>>)>>]

MCRequests ==
    {R0,
     [R0 EXCEPT !.inserts = 0, !.mains = 3, !.skip_failed_links = FALSE, !.append_info_n = 1],
     [R0 EXCEPT !.inserts = 2, !.mains = 1, !.prepend_insert = FALSE,
                !.exclude = {ByName({xEqY}), ById(<<Exact(0)>>, None)},
                !.emoji = <<Emoji(ByInsert(<<Exact(1)>>, None), e1),
                            Emoji(ByInsert(<<Exact(-1)>>, None), e2)>>],
     [R0 EXCEPT !.inserts = 0, !.include = {ById(<<Exact(0)>>, {x})}, !.filter_script = TRUE,
                !.sort = TRUE, !.rename = [Same EXCEPT ![x] = xEqY, ![empty] = None],
                !.emoji = <<Emoji(ById(<<Exact(2), Part("exact", TRUE, 0, 0)>>, None), e1),
                            Emoji(ById(<<Exact(2), Part("range", TRUE, 1, 1)>>, None), e2)>>],
     [R0 EXCEPT !.append_type = TRUE, !.filter_deprecated = TRUE, !.nodelist = TRUE,
                !.emoji = <<Emoji(ById(<<Part("bad", FALSE, 0, 0),
                                         Part("range", FALSE, 1, MaxInt)>>, {x}), e1),
                            Emoji(ById(<<Part("range", FALSE, MinInt, -1)>>, None), e2)>>],
     [R0 EXCEPT !.append_info = FALSE, !.filter_deprecated = TRUE, !.clash_r = TRUE,
                !.base = <<BaseGroup(direct), BaseGroup(g1)>>,
                !.groups = <<Group(g1, FALSE, <<ByName({x})>>), Group(g1, TRUE, <<>>),
                             Group(g2, TRUE, <<>>)>>],
     [R0 EXCEPT !.append_info_n = 1, !.groups = <<Group(g1, FALSE, <<ByName({x})>>),
                                                  Group(g1, TRUE, <<>>)>>]}
=============================================================================
