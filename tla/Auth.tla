--------------------------------- MODULE Auth --------------------------------
(***************************************************************************)
(* How a run finds the credential style of every site before it crawls     *)
(* (internal/confluence/authmode.go): a probe straight to the site, after  *)
(* a refusal the site's cloud ID, and a probe through the gateway.         *)
(***************************************************************************)
EXTENDS Naturals, Sequences

CONSTANTS Sites,    \* the hosts of the site URLs, in seed order; one may come twice
          CloudIDs  \* cloud IDs that a configuration may name

VARIABLES
  style,    \* confluence.auth_mode, "auto" if it is absent
  given,    \* confluence.cloud_id, {} if it is absent
  site,     \* the number of the site that is resolved
  attempt,  \* the request that comes next: "classic", "cloud" or "scoped"
  cloud,    \* the cloud ID found for the site
  clients,  \* the client of each resolved host
  outcome,  \* "running", "resolved" or "failed"
  blamed,   \* what the error says of the credentials, per attempt
  refused   \* history: the requests for this site that were refused with 401 or 403

authVars == <<style, given, site, attempt, cloud, clients, outcome, blamed, refused>>

ASSUME SitesAssumption == Len(Sites) \in Nat \ {0} /\ DOMAIN Sites = 1..Len(Sites)

First(s) == IF s = "scoped" THEN "cloud" ELSE "classic"

\* "denied" is 401 or 403, "error" anything else that is no success.
Answers == {"ok", "denied", "error"}

AuthInit ==
  /\ style \in {"auto", "classic", "scoped"}
  /\ given \in {{}} \cup {{c} : c \in CloudIDs}
  /\ site = 1
  /\ attempt = First(style)
  /\ cloud = {}
  /\ clients = <<>>
  /\ outcome = "running"
  /\ blamed = {}
  /\ refused = {}

\* The client of the site is known; the next site starts from the beginning.
Resolved(client) ==
  /\ clients' = [h \in DOMAIN clients \cup {Sites[site]} |->
                   IF h = Sites[site] THEN client ELSE clients[h]]
  /\ IF site = Len(Sites) THEN outcome' = "resolved" /\ site' = site
     ELSE outcome' = outcome /\ site' = site + 1
  /\ attempt' = First(style) /\ cloud' = {} /\ refused' = {}
  /\ UNCHANGED <<style, given, blamed>>

\* describeProbeFailure, ClassifyAuthFailure: only a refusal is classified.
Blame(m, a) ==
  IF a # "denied" THEN {} ELSE {IF m = "scoped" THEN "permission" ELSE "rejected"}

Fails(blame) ==
  /\ outcome' = "failed" /\ blamed' = blame
  /\ UNCHANGED <<style, given, site, attempt, cloud, clients>>

\* An attempt by way of the gateway failed: in auto mode, the direct one did before.
FailsScoped(a) ==
  Fails(Blame("scoped", a) \cup IF style = "auto" THEN Blame("classic", "denied") ELSE {})

Refuse(a) == refused' = IF a = "denied" THEN refused \cup {attempt} ELSE refused

\* resolveSingleHost, probeClassic.  Auto falls back only if the site refused.
AnyFailure(a) == a # "ok"                      \* Mutant of IsAuthFailure
IsAuthFailure(a) == a = "denied"

ProbeClassic(a) ==
  /\ outcome = "running" /\ attempt = "classic"
  /\ \/ a = "ok" /\ Resolved([mode |-> "classic", cloud |-> {}])
     \/ a # "ok" /\ style = "classic" /\ Fails(Blame("classic", a)) /\ Refuse(a)
     \/ a # "ok" /\ style = "auto" /\ ~IsAuthFailure(a) /\ Fails({}) /\ Refuse(a)
     \/ /\ a # "ok" /\ style = "auto" /\ IsAuthFailure(a)
        /\ attempt' = "cloud" /\ Refuse(a)
        /\ UNCHANGED <<style, given, site, cloud, clients, outcome, blamed>>

\* resolveCloudID: the configured ID for every site, or what the site says.
CloudOf(n) == IF given # {} THEN given ELSE {Sites[n]}
FindCloud(a) ==
  /\ outcome = "running" /\ attempt = "cloud"
  /\ \/ /\ a = "ok"
        /\ attempt' = "scoped"
        /\ cloud' = CloudOf(site)
        /\ UNCHANGED <<style, given, site, clients, outcome, blamed, refused>>
     \/ a # "ok" /\ given = {} /\ FailsScoped(a) /\ Refuse(a)

\* probeScoped.
ProbeScoped(a) ==
  /\ outcome = "running" /\ attempt = "scoped"
  /\ \/ a = "ok" /\ Resolved([mode |-> "scoped", cloud |-> cloud])
     \/ a # "ok" /\ FailsScoped(a) /\ Refuse(a)

AuthNext ==
  \E a \in Answers : ProbeClassic(a) \/ FindCloud(a) \/ ProbeScoped(a)

AuthSpec == AuthInit /\ [][AuthNext]_authVars

-----------------------------------------------------------------------------
AuthTypeOK ==
  /\ style \in {"auto", "classic", "scoped"} /\ site \in 1..Len(Sites)
  /\ attempt \in {"classic", "cloud", "scoped"}
  /\ \A h \in DOMAIN clients : clients[h].mode \in {"classic", "scoped"}
  /\ outcome \in {"running", "resolved", "failed"}
  /\ blamed \subseteq {"permission", "rejected"}
  /\ refused \subseteq {"classic", "cloud", "scoped"}

\* The gateway is asked for a site, and may become its client, only if the
\* configuration says so or the site itself refused the credentials in this run.
FallbackAfterRefusal ==
  outcome = "running" /\ attempt # "classic" => style = "scoped" \/ "classic" \in refused

\* An error blames the token only if the site refused it, and its scopes only if the
\* gateway refused them or, against what authmode.go says (see AsDocumented), the site
\* refused to tell its cloud ID.
BlameFounded ==
  /\ "rejected" \in blamed => "classic" \in refused
  /\ "permission" \in blamed /\ "cloud" \notin refused => "scoped" \in refused

\* Every host gets a client, and if no cloud ID is configured, the client of a host leads
\* to its own tenant, whichever attempts failed for this host and for those before it.
RightTenant ==
  /\ outcome = "resolved" => \A n \in DOMAIN Sites : Sites[n] \in DOMAIN clients
  /\ given = {} =>
       \A h \in DOMAIN clients : clients[h].mode = "scoped" => clients[h].cloud = {h}

\* Whatever the sites and the gateway answer, the resolution falls back for a reason,
\* blames what was refused, and keeps the tenants that it looks up itself apart.
ResolutionSound == FallbackAfterRefusal /\ BlameFounded /\ RightTenant

\* A refused request for the cloud ID, which carries no credentials, is told as it is: it
\* says nothing of the permissions of credentials that were accepted.
CloudFailureUnblamed == "cloud" \in refused => "permission" \notin blamed

\* Links across hosts are fetched from the right tenant: two hosts are two tenants.
OwnTenant ==
  \A g, h \in DOMAIN clients :
    g # h /\ clients[g].mode = "scoped" /\ clients[h].mode = "scoped"
      => clients[g].cloud # clients[h].cloud

\* What authmode.go says of its errors and of its clients.  Both halves fail.
AsDocumented == CloudFailureUnblamed /\ OwnTenant
=============================================================================
