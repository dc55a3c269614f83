----------------------------- MODULE ChartGates -----------------------------
(***************************************************************************)
(* The guards with which the app chart refuses unsafe values, and the      *)
(* renders by which validate.sh makes sure that it does.  A chart is the   *)
(* set of guards it has.  Of the guards only those are here that one of    *)
(* the refused renders runs into.                                          *)
(***************************************************************************)
EXTENDS FiniteSets

Limits == {"rateLimit.average", "rateLimit.burst", "inFlight", "webSocketInFlight"}

\* values-<env>.yaml.  Of requiredSecrets, those that only some environments
\* have.
Desired(env) ==
    [env |-> env, deployed |-> env # "preview", ingress |-> env # "preview",
     digest |-> env # "preview", qr |-> TRUE, bucket |-> env, seoul |-> TRUE,
     provider |-> "smtp", sender |-> IF env = "preview" THEN "nonprod" ELSE "gmail",
     fcm |-> env # "preview", testApi |-> env # "prod", runtime |-> env # "prod",
     seed |-> env = "dev",
     secrets |-> CASE env = "prod" -> {"fcm", "report"}
                   [] env = "dev" -> {"fcm", "report", "seed"}
                   [] env = "preview" -> {},
     issuer |-> "production", target |-> "public", unlimited |-> {}]

\* ... with common_args, which open the Deployment.
Common(env) == [Desired(env) EXCEPT !.deployed = TRUE, !.digest = TRUE]
Prod == Common("prod")
Dev == Common("dev")
Preview == Common("preview")
PreviewPr == [Preview EXCEPT !.ingress = TRUE]      \* of the ApplicationSet

If(condition, guard) == IF condition THEN {guard} ELSE {}

\* The guards that the values v run into.
TestApiGuards(v) ==
    UNION {If(v.seed /\ ("seed" \notin v.secrets \/ ~v.testApi), "seedRuntime"),
           If(v.testApi /\ v.env = "prod", "testApiEnv"),
           If(v.testApi /\ ~v.runtime, "testApiRuntime"),
           If(~v.testApi /\ v.runtime, "runtimeTestApi")}

StorageGuards(v) == If(v.bucket # v.env, "bucket") \cup If(~v.seoul, "region")

SenderGuards(v) ==
    UNION {If(v.provider = "ses" /\ v.env = "prod" /\ v.sender # "prod", "prodSender"),
           If(v.provider = "ses" /\ v.env # "prod" /\ v.sender # "nonprod", "otherSender")}

FcmGuards(v) ==
    UNION {If(v.env # "preview" /\ ~v.fcm, "fcmOn"),
           If(v.env = "preview" /\ v.fcm, "fcmOff"),
           If(v.fcm /\ "fcm" \notin v.secrets, "fcmSecret"),
           If(v.env = "preview" /\ "fcm" \in v.secrets, "noFcmSecret")}

SecretGuards(v) ==
    UNION {If(v.env # "preview" /\ "report" \notin v.secrets, "report"),
           If(v.env = "dev" /\ "seed" \notin v.secrets, "seedSecret")}

DeploymentGuards(v) ==
    UNION {If(~v.digest, "digest"), If(~v.qr, "qr"), TestApiGuards(v), StorageGuards(v),
           SenderGuards(v), FcmGuards(v), SecretGuards(v)}

IngressGuards(v) ==
    UNION {If(v.env # "preview" /\ v.issuer # "production", "issuer"),
           If(v.deployed /\ v.target = "bootstrap", "target"),
           If(v.deployed /\ v.testApi /\ v.env = "prod", "testApiIngressEnv"),
           IF v.deployed THEN v.unlimited ELSE {}}

Violated(v) == (IF v.deployed THEN DeploymentGuards(v) ELSE {})
               \cup (IF v.ingress THEN IngressGuards(v) ELSE {})

\* The conditions under which the test API's Ingress is rendered.
ShowsTestApi(chart, v) ==
    /\ v.testApi
    /\ "showDeployed" \in chart => v.deployed
    /\ "showIngress" \in chart => v.ingress

-----------------------------------------------------------------------------
(***************************************************************************)
(* The renders of validate.sh.                                             *)
(***************************************************************************)
WithoutTestApi ==
    {[Dev EXCEPT !.ingress = FALSE], [Dev EXCEPT !.deployed = FALSE, !.ingress = FALSE]}

Rendered(check) ==
    CASE check = "desired" -> {Desired("prod"), Desired("dev"), Desired("preview")}
      [] check = "previews" -> {PreviewPr}
      [] check = "testApi" -> WithoutTestApi
      [] check = "guards" -> {[Prod EXCEPT !.ingress = FALSE, !.issuer = "staging",
                                           !.target = "bootstrap"]}
      [] check = "renders" -> {Prod, Dev, Preview, PreviewPr}
      [] OTHER -> {}

UnlimitedEdges == {[Prod EXCEPT !.unlimited = {limit}] : limit \in Limits}

RefusedProd ==
    {[Prod EXCEPT !.qr = FALSE],
     [Prod EXCEPT !.fcm = FALSE],
     [Prod EXCEPT !.secrets = {}],
     [Prod EXCEPT !.testApi = TRUE, !.runtime = TRUE],
     [Prod EXCEPT !.bucket = "dev"],
     [Prod EXCEPT !.provider = "ses", !.sender = "nonprod"],
     [Prod EXCEPT !.issuer = "staging"],
     [Prod EXCEPT !.target = "bootstrap"]}

RefusedDev ==
    {[Dev EXCEPT !.fcm = FALSE],
     [Dev EXCEPT !.secrets = {}],
     [Dev EXCEPT !.runtime = FALSE],
     [Dev EXCEPT !.testApi = FALSE],
     [Dev EXCEPT !.bucket = "preview"],
     [Dev EXCEPT !.seoul = FALSE],
     [Dev EXCEPT !.provider = "ses", !.sender = "prod"]}

WithoutDigest == [PreviewPr EXCEPT !.digest = FALSE]

RefusedPreview ==
    {WithoutDigest,
     [Preview EXCEPT !.fcm = TRUE],
     [Preview EXCEPT !.secrets = {"fcm"}],
     [Preview EXCEPT !.seed = TRUE],
     [Preview EXCEPT !.bucket = "prod"]}

RefusedSome ==      \* fault: what the chart has to refuse is collected by hand
    RefusedProd \cup RefusedDev \cup RefusedPreview
    \cup {[Prod EXCEPT !.unlimited = Limits]}

Refused == RefusedProd \cup RefusedDev \cup RefusedPreview \cup UnlimitedEdges

Guard == UNION ({Violated(v) : v \in Refused}
                \cup {Limits, {"showDeployed", "showIngress"}})

Refuses(chart, v) == Violated(v) \cap chart # {}

\* All but one are refused by the check "guards".
RefusedBy(check) == CASE check = "previews" -> {WithoutDigest}
                      [] check = "guards" -> Refused \ {WithoutDigest}
                      [] OTHER -> {}

\* What the checks of validate.sh make of a chart.
Passes(chart, check) ==
    /\ \A v \in Rendered(check) : ~Refuses(chart, v)
    /\ check = "testApi" => \A v \in WithoutTestApi : ~ShowsTestApi(chart, v)
    /\ \A v \in RefusedBy(check) : Refuses(chart, v)
=============================================================================
