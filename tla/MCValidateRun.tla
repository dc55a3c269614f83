--------------------------- MODULE MCValidateRun ---------------------------
(***************************************************************************)
(* ValidateRun for TLC.  The trees depart from a sound one in one respect: *)
(* up to two guards of the chart, the kinds of one project, the quota and  *)
(* the app's Pod, who reads which secrets, or the names of DNS records.    *)
(***************************************************************************)
EXTENDS ValidateRun, TLC

MCMayLack == {"version", "lint", "schemas", "runtime"}
MCNumbers == {"7", "143"}

\* The prod API, two hosts of previews, and others that nothing renders.
Hostnames(hole) ==
    {<<"api", Dns!Zone>>, <<"api-pr-", hole, Dns!PreviewDomain>>,
     <<hole, Dns!PreviewDomain>>, <<"mail-pr-", hole, Dns!Zone>>}

MCNames ==
    LET hosts == Hostnames("7") \cup Hostnames("x")
    IN  hosts \cup {Dns!Owner("A", host) : host \in hosts} \cup Dns!Challenges

SomeObjects ==
    {[kind |-> "Secret", name |-> "a", namespace |-> "app", labelled |-> FALSE],
     [kind |-> "Namespace", name |-> "a", namespace |-> "", labelled |-> FALSE],
     [kind |-> "SecretStore", name |-> "aws", namespace |-> "argocd", labelled |-> FALSE],
     [kind |-> "Secret", name |-> "b", namespace |-> "argocd", labelled |-> TRUE]}

App(objects, direct) ==
    {[name |-> "a", project |-> "platform", file |-> "platform",
      objects |-> objects, left |-> {}],
     [name |-> "b", project |-> "open", file |-> "", objects |-> SomeObjects,
      left |-> {}],
     [name |-> "c", project |-> "open", file |-> "git", objects |-> direct,
      left |-> {}]}

Projects(barred, whitelist, extras) ==
    [platform |-> [cluster |-> {[kind |-> "Namespace", name |-> "a"]}, barred |-> barred,
                   listed |-> TRUE, whitelist |-> whitelist, blacklist |-> {},
                   extras |-> extras],
     open |-> [cluster |-> {}, barred |-> {}, listed |-> FALSE, whitelist |-> {},
               blacklist |-> {"Secret"}, extras |-> {}]]

Pod(init, containers, sidecar) ==
    [init |-> init, containers |-> containers, sidecar |-> sidecar]

Pods(app) == [app |-> app, createdb |-> Pod(<<>>, <<1>>, FALSE),
              dropdb |-> Pod(<<>>, <<1>>, FALSE), postgres |-> Pod(<<>>, <<1>>, FALSE),
              orphanCheck |-> Pod(<<>>, <<1>>, FALSE)]

MCLeftovers == {{}, File, {"desired", "previews", "platform"}}

\* The secrets of the contract in small: two of dev, one each of the others.
MCExpectedSecrets ==
    {<<"app", "db">>, <<"dev-app", "db">>, <<"dev-app", "seed">>, <<"preview", "db">>,
     <<"argocd", "token">>}
MCSourceCount == 5

HomePrefix == [app |-> <<"prod">>, preview |-> <<"preview">>,
               argocd |-> <<"platform", "argocd">>] @@ ("dev-app" :> <<"dev">>)
HomeRole == [app |-> "prod", preview |-> "preview", argocd |-> "argocd"] @@ ("dev-app" :> "dev")

HomePath(secret) == HomePrefix[secret[1]] \o <<secret[2]>>

\* Each role reads the paths of the namespaces it trusts.
HomeRoles ==
    [r \in {"prod", "dev", "preview", "argocd"} |->
        LET trusts == {ns \in Wiring!Namespaces : HomeRole[ns] = r}
        IN  [trusts |-> trusts,
             statements |-> <<{HomePath(s) : s \in {t \in MCExpectedSecrets : t[1] \in trusts}}>>]]

HomePaths == {HomePath(secret) : secret \in MCExpectedSecrets}

\* Each secret reads the path that another has at home; with neutral prefixes
\* unless they all read their own.
Crossings ==
    {[s \in MCExpectedSecrets |-> IF s = a THEN b ELSE IF s = b THEN a ELSE s] :
        a \in {<<"dev-app", "db">>, <<"app", "db">>}, b \in MCExpectedSecrets}

Wired(reads, roles, assumes, uploads) ==
    LET own == \A s \in DOMAIN reads : reads[s] = s
    IN  [data |-> {[namespace |-> s[1], name |-> s[2],
                    key |-> IF own THEN <<s[2]>> ELSE HomePath(reads[s])] : s \in DOMAIN reads},
         stores |-> [ns \in Wiring!Namespaces |->
                        [prefix |-> IF own THEN HomePrefix[ns] ELSE <<>>, role |-> assumes[ns]]],
         roles |-> roles, uploads |-> uploads]

HomeUploads == [path \in HomePaths |-> Wiring!Worksheet(path)]

Ingress(opted, named, rules) == [opted |-> opted, rules |-> rules, tls |-> rules, named |-> named]

\* With a preview's further hosts: those of another Ingress and of its tls.
Records(patterns, types, more, opted) ==
    [ingresses |-> {Ingress(TRUE, {}, {<<"api", Dns!Zone>>}), Ingress(opted, more.named, {})},
     api |-> [Ingress(TRUE, {}, {Dns!PreviewHost}) EXCEPT !.tls = @ \cup more.tls],
     types |-> types,
     external |-> [names |-> patterns, types |-> types],
     certManager |-> [names |-> Dns!Challenges, types |-> {"TXT"}]]

\* The patterns that the stack of the repository would have for these.
Patterns(holes) ==
    LET hosts == {<<"api", Dns!Zone>>} \cup {<<"api-pr-", hole, Dns!PreviewDomain>> : hole \in holes}
    IN  hosts \cup {Dns!Owner("A", host) : host \in hosts}

Sound == [guards |-> Gates!Guard, apps |-> App({}, {}), projects |-> Projects({}, {}, {}),
          pods |-> Pods(Pod(<<>>, <<1>>, FALSE)), quota |-> 8,
          wiring |-> Wired([s \in MCExpectedSecrets |-> s], HomeRoles, HomeRole, HomeUploads),
          dns |-> Records(Patterns({Dns!Star}), {"A", "TXT"}, [named |-> {}, tls |-> {}], TRUE), gone |-> {}]

OfGuards == {[Sound EXCEPT !.guards = Gates!Guard \ {g, h}] :
                g \in Gates!Guard, h \in Gates!Guard}

OfKinds == {[Sound EXCEPT !.apps = App(objects, direct),
                          !.projects = Projects(barred, whitelist, extras),
                          !.gone = gone] :
               objects \in SUBSET SomeObjects,
               direct \in {{o} : o \in SomeObjects} \cup {{}},
               whitelist \in SUBSET {"Secret", "SecretStore"},
               barred \in {{}, {[kind |-> "Namespace", name |-> ""]}},
               extras \in {{}, {"Secret"}}, gone \in {{}, {"platform"}}}

OfQuota == {[Sound EXCEPT !.pods = Pods(Pod(init, containers, sidecar)), !.quota = quota] :
               init \in {<<>>, <<1>>, <<1, 2>>}, containers \in {<<1>>, <<1, 1>>},
               sidecar \in BOOLEAN, quota \in 8..12}

\* DevRole as it is, with a path more or less, or with all of them; then as it
\* is, with a second statement, beside a wide preview role or trusting preview;
\* or a source of preview listed under the prod role.
DevLists == {{p \in HomePaths : p[1] = "dev"}, {p \in HomePaths : p[1] = "dev"} \cup {<<"prod", "db">>},
             {<<"dev", "db">>}, HomePaths}

RoleSets ==
    UNION {LET Given == [HomeRoles EXCEPT !["dev"].statements = <<list>>]
           IN  {<<Given, HomeRole>>,
                <<[Given EXCEPT !["dev"].statements = <<list, {Wiring!Wild}>>], HomeRole>>,
                <<[Given EXCEPT !["preview"] = [trusts |-> {"preview", "dev-app"},
                                                statements |-> <<{<<"preview", "db">>}, {Wiring!Wild}>>]],
                  [HomeRole EXCEPT !["dev-app"] = "preview"]>>,
                <<[Given EXCEPT !["dev"].trusts = {"dev-app", "preview"}],
                  [HomeRole EXCEPT !["preview"] = "dev"]>>,
                <<[Given EXCEPT !["preview"].statements = <<{}>>,
                                !["prod"].statements = <<{<<"prod", "db">>, <<"preview", "db">>}>>],
                  HomeRole>>} :
           list \in DevLists}

OfWiring == {[Sound EXCEPT !.wiring = Wired(reads, roles[1], roles[2], uploads)] :
                reads \in Crossings, roles \in RoleSets,
                uploads \in {HomeUploads, [HomeUploads EXCEPT ![<<"dev", "db">>] = "prod"]}}

\* The stack with a pattern more or less, or the sample instead of the star.
OfDns ==
    {[Sound EXCEPT !.dns = Records((Patterns(holes) \ less) \cup more, types, hosts, opted)] :
        holes \in {{Dns!Star}, {Dns!Sample}}, types \in {{"A"}, {"A", "TXT"}},
        less \in {{}, {p \in Patterns({Dns!Star}) : p[1] = Dns!TxtPrefix}} \cup
                {{p} : p \in Patterns({Dns!Star})},
        more \in {S \in SUBSET (Hostnames(Dns!Star) \cup {Dns!Owner("A", <<Dns!Star, Dns!PreviewDomain>>)}) :
                      Cardinality(S) <= 2},
        hosts \in {[named |-> named, tls |-> {}] :
                      named \in {{}} \cup {{host} : host \in Hostnames(Dns!Number)}}
                  \cup {[named |-> {}, tls |-> {<<Dns!Number, Dns!PreviewDomain>>}]},
        opted \in BOOLEAN}

MCTrees == OfGuards \cup OfKinds \cup OfQuota \cup OfWiring \cup OfDns
=============================================================================
