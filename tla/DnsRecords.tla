----------------------------- MODULE DnsRecords -----------------------------
(***************************************************************************)
(* contracts/dns.py: the DNS records that ExternalDNS makes of the         *)
(* Ingresses against those it may write; and the hosts of the previews in  *)
(* contracts/preview_budget.py.                                            *)
(*                                                                         *)
(* A name is the sequence of its pieces, cut where templates and patterns  *)
(* have their holes.  What is under review is a record [ingresses, api,    *)
(* types, external, certManager]: the Ingresses of the charts and          *)
(* manifests, that of a preview's app with the hosts which the             *)
(* ApplicationSet sets, the managedRecordTypes of ExternalDNS, and what    *)
(* IAM permits the two users: [names, types], names being patterns for     *)
(* ExternalDNS.  An Ingress is [opted, rules, tls, named]: whether it has  *)
(* the annotation of ExternalDNS's annotationFilter, and the hosts of its  *)
(* rules, its tls and its hostname annotation.                             *)
(***************************************************************************)
EXTENDS Integers, Sequences

Number == "{{ .number }}"   \* in a host: the pull request
Star == "*"                 \* in a pattern: anything
Sample == "42"              \* PREVIEW_SAMPLE_PR_NUMBER
Zone == ".university.neordinary.com"
PreviewDomain == ".preview.university.neordinary.com"   \* PREVIEW_DNS_DOMAIN
TxtPrefix == "_external-dns."
Challenge == "_acme-challenge"

Name == Seq(STRING) \ {<<>>}

Holes(name, piece) == {i \in DOMAIN name : name[i] = piece}

Filled(name, hole, piece) == [i \in DOMAIN name |-> IF name[i] = hole THEN piece ELSE name[i]]

-----------------------------------------------------------------------------
\* What a preview answers to, and the wildcard certificate of all previews.
PreviewHost == <<"api-pr-", Number, PreviewDomain>>

\* Of the tls only the first host is looked at.
PreviewNamed(dns) == dns.api.rules = {PreviewHost} /\ PreviewHost \in dns.api.tls

\* external_dns_hosts, for the render of one pull request.
Hosts(dns, number) ==
    {Filled(host, Number, number) : host \in
        UNION {i.rules \cup i.tls \cup i.named :
               i \in {j \in dns.ingresses \cup {dns.api} : j.opted}}}

Owner(type, host) == <<TxtPrefix, type>> \o host

RecordNamesOfHosts(hosts, types) == hosts   \* fault: without the ownership records

RecordNames(hosts, types) ==
    hosts \cup {Owner(type, host) : type \in types \ {"TXT"}, host \in hosts}

\* iam_string_like, for patterns of at most one star.
Like(pattern, name) ==
    \/ pattern = name
    \/ \E i \in Holes(pattern, Star) :
           LET longer == Len(name) - Len(pattern)
           IN  /\ longer >= -1
               /\ \A k \in 1..i - 1 : name[k] = pattern[k]
               /\ \A k \in i + 1..Len(pattern) : name[longer + k] = pattern[k]

\* No wider than what is rendered, and no star outside the preview domain.
Narrow(pattern, names) ==
    /\ \A i, j \in Holes(pattern, Star) : i = j
    /\ Filled(pattern, Star, Sample) \in names
    /\ Holes(pattern, Star) # {} => pattern[Len(pattern)] = PreviewDomain

\* validate_external_dns_record_names
NamesHold(dns) ==
    LET hosts == Hosts(dns, Sample)
        names == RecordNames(hosts, dns.types)
    IN  /\ hosts # {}
        /\ \A name \in names : \E pattern \in dns.external.names : Like(pattern, name)
        /\ \A pattern \in dns.external.names : Narrow(pattern, names)

\* validate_route53_contract
Challenges ==
    {<<Challenge, PreviewDomain>>} \cup
    {<<Challenge, label, Zone>> : label \in {".api", ".api-dev", ".grafana", ".argo"}}

PoliciesHold(dns) ==
    /\ dns.certManager = [names |-> Challenges, types |-> {"TXT"}]
    /\ dns.external.types = dns.types

DnsHolds(dns) == PreviewNamed(dns) /\ PoliciesHold(dns) /\ NamesHold(dns)

\* For reference: what IAM lets ExternalDNS write.
MayWrite(dns, name, type) ==
    /\ type \in dns.external.types
    /\ \E pattern \in dns.external.names : Like(pattern, name)
=============================================================================
