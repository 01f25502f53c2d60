------------------------------ MODULE AuthProofs -----------------------------
(***************************************************************************)
(* Whatever the sites and the gateway answer, for any sites.               *)
(***************************************************************************)
EXTENDS Auth, TLAPS

\* While a site is resolved: nothing is blamed yet, the sites before it have clients,
\* and what is known of the cloud ID is the site's own or the configured one.
Progress ==
  /\ outcome = "running" => blamed = {}
  /\ \A n \in DOMAIN Sites : n < site \/ outcome = "resolved" => Sites[n] \in DOMAIN clients
  /\ outcome = "running" /\ attempt = "scoped" => cloud = CloudOf(site)

AuthInv == AuthTypeOK /\ ResolutionSound /\ Progress

\* A client that is added was found with the site's cloud ID, and the next site starts afresh.
LEMMA ResolvedKeeps ==
  ASSUME AuthInv, outcome = "running",
         NEW client, client.mode \in {"classic", "scoped"},
         client.mode = "scoped" => client.cloud = CloudOf(site),
         Resolved(client)
  PROVE  AuthInv'
<1>0. /\ Len(Sites) \in Nat \ {0} /\ site \in 1..Len(Sites)
      /\ \/ site = Len(Sites) /\ site' = site /\ outcome' = "resolved"
         \/ site # Len(Sites) /\ site' = site + 1 /\ outcome' = "running"
  BY SitesAssumption DEF AuthInv, AuthTypeOK, Resolved
<1>1. /\ Sites[site] \in DOMAIN clients' /\ clients'[Sites[site]] = client
      /\ \A h \in DOMAIN clients : h \in DOMAIN clients'
      /\ \A h \in DOMAIN clients' : h # Sites[site] => h \in DOMAIN clients
                                                       /\ clients'[h] = clients[h]
  BY DEF Resolved
<1> USE DEF AuthInv, Progress, ResolutionSound, Resolved
<1>2. AuthTypeOK'
  <2>1. site' \in 1..Len(Sites) /\ outcome' \in {"running", "resolved", "failed"}
    BY <1>0
  <2>2. \A h \in DOMAIN clients' : clients'[h].mode \in {"classic", "scoped"}
    BY <1>1 DEF AuthTypeOK
  <2> QED BY <2>1, <2>2 DEF AuthTypeOK, First
<1>3. FallbackAfterRefusal'
  BY DEF FallbackAfterRefusal, First, AuthTypeOK
<1>4. BlameFounded'
  BY DEF BlameFounded
<1>5. \A n \in DOMAIN Sites : n < site' \/ outcome' = "resolved" => Sites[n] \in DOMAIN clients'
  <2> SUFFICES ASSUME NEW n \in DOMAIN Sites, n < site' \/ outcome' = "resolved"
               PROVE  Sites[n] \in DOMAIN clients'
    OBVIOUS
  <2>1. n \in 1..Len(Sites)
    BY SitesAssumption
  <2>2. n < site \/ n = site
    BY <1>0, <2>1
  <2> QED BY <2>2, <1>1 DEF AuthInv, Progress
<1>6. RightTenant'
  <2>1. given' = {} => \A h \in DOMAIN clients' :
                         clients'[h].mode = "scoped" => clients'[h].cloud = {h}
    BY <1>1 DEF RightTenant, CloudOf
  <2> QED BY <1>5, <2>1 DEF RightTenant
<1>7. Progress'
  <2>1. outcome' = "running" => blamed' = {}
    OBVIOUS
  <2>2. attempt' # "scoped"
    BY DEF First
  <2> QED BY <1>5, <2>1, <2>2
<1> QED BY <1>2, <1>3, <1>4, <1>6, <1>7

\* An attempt that fails keeps what is known and blames what was refused.
LEMMA FailsKeeps ==
  ASSUME AuthInv, outcome = "running",
         NEW blame \in SUBSET {"permission", "rejected"}, Fails(blame),
         refused' \subseteq {"classic", "cloud", "scoped"},
         "rejected" \in blame => "classic" \in refused',
         "permission" \in blame => "cloud" \in refused' \/ "scoped" \in refused'
  PROVE  AuthInv'
BY DEF AuthInv, Progress, ResolutionSound, Fails, AuthTypeOK, FallbackAfterRefusal,
       BlameFounded, RightTenant

\* What Refuse adds, for an answer to the present request.
LEMMA RefuseAdds ==
  ASSUME AuthTypeOK, NEW a, Refuse(a)
  PROVE  /\ refused' \subseteq {"classic", "cloud", "scoped"}
         /\ refused \subseteq refused'
         /\ a = "denied" => attempt \in refused'
BY DEF AuthTypeOK, Refuse

\* A failure on the way through the gateway: in auto mode the site refused before.
LEMMA GatewayFails ==
  ASSUME AuthInv, outcome = "running", attempt \in {"cloud", "scoped"},
         NEW a, a # "ok", FailsScoped(a), Refuse(a)
  PROVE  AuthInv'
<1> DEFINE blame == Blame("scoped", a)
                      \cup IF style = "auto" THEN Blame("classic", "denied") ELSE {}
<1>1. /\ refused' \subseteq {"classic", "cloud", "scoped"}
      /\ refused \subseteq refused'
      /\ a = "denied" => attempt \in refused'
  BY RefuseAdds DEF AuthInv
<1>2. blame \in SUBSET {"permission", "rejected"}
  BY DEF Blame
<1>3. "rejected" \in blame => "classic" \in refused'
  <2>1. "rejected" \in blame => style = "auto"
    BY DEF Blame
  <2>2. style = "auto" => "classic" \in refused
    BY DEF AuthInv, ResolutionSound, FallbackAfterRefusal
  <2> QED BY <1>1, <2>1, <2>2
<1>4. "permission" \in blame => "cloud" \in refused' \/ "scoped" \in refused'
  <2>1. "permission" \in blame => a = "denied"
    BY DEF Blame
  <2> QED BY <1>1, <2>1
<1>5. Fails(blame)
  BY DEF FailsScoped
<1> HIDE DEF blame
<1> QED BY <1>1, <1>2, <1>3, <1>4, <1>5, FailsKeeps

\* Every step of the resolution keeps the invariant.
LEMMA AuthStep ==
  ASSUME AuthInv, [AuthNext]_authVars
  PROVE  AuthInv'
<1>1. ASSUME NEW a \in Answers, ProbeClassic(a)
      PROVE  AuthInv'
  <2> USE <1>1
  <2>1. outcome = "running" /\ attempt = "classic"
    BY DEF ProbeClassic
  <2>2. CASE Resolved([mode |-> "classic", cloud |-> {}])
    BY <2>1, <2>2, ResolvedKeeps
  <2>3. CASE a # "ok" /\ Fails(Blame("classic", a)) /\ Refuse(a)
    <3>1. Blame("classic", a) \in SUBSET {"permission", "rejected"}
      BY DEF Blame
    <3>2. /\ "permission" \notin Blame("classic", a)
          /\ "rejected" \in Blame("classic", a) => a = "denied"
      BY DEF Blame
    <3>3. /\ refused' \subseteq {"classic", "cloud", "scoped"}
          /\ a = "denied" => "classic" \in refused'
      BY <2>1, <2>3, RefuseAdds DEF AuthInv
    <3> QED BY <2>1, <2>3, <3>1, <3>2, <3>3, FailsKeeps
  <2>4. CASE Fails({}) /\ Refuse(a)
    <3>1. refused' \subseteq {"classic", "cloud", "scoped"}
      BY <2>4, RefuseAdds DEF AuthInv
    <3>2. {} \in SUBSET {"permission", "rejected"}
      OBVIOUS
    <3> QED BY <2>1, <2>4, <3>1, <3>2, FailsKeeps
  <2>5. CASE /\ IsAuthFailure(a) /\ attempt' = "cloud" /\ Refuse(a)
             /\ UNCHANGED <<style, given, site, cloud, clients, outcome, blamed>>
    <3>1. "classic" \in refused' /\ refused' \subseteq {"classic", "cloud", "scoped"}
      BY <2>1, <2>5, RefuseAdds DEF AuthInv, IsAuthFailure
    <3>2. blamed' = {}
      BY <2>1, <2>5 DEF AuthInv, Progress
    <3> QED BY <2>1, <2>5, <3>1, <3>2 DEF AuthInv, Progress, ResolutionSound, AuthTypeOK,
              FallbackAfterRefusal, BlameFounded, RightTenant
  <2> QED BY <2>2, <2>3, <2>4, <2>5 DEF ProbeClassic
<1>2. ASSUME NEW a \in Answers, FindCloud(a)
      PROVE  AuthInv'
  <2> USE <1>2
  <2>1. outcome = "running" /\ attempt = "cloud"
    BY DEF FindCloud
  <2>2. CASE /\ attempt' = "scoped" /\ cloud' = CloudOf(site)
             /\ UNCHANGED <<style, given, site, clients, outcome, blamed, refused>>
    BY <2>1, <2>2 DEF AuthInv, Progress, ResolutionSound, AuthTypeOK, CloudOf,
       FallbackAfterRefusal, BlameFounded, RightTenant
  <2>3. CASE a # "ok" /\ FailsScoped(a) /\ Refuse(a)
    BY <2>1, <2>3, GatewayFails
  <2> QED BY <2>2, <2>3 DEF FindCloud
<1>3. ASSUME NEW a \in Answers, ProbeScoped(a)
      PROVE  AuthInv'
  <2> USE <1>3
  <2>1. outcome = "running" /\ attempt = "scoped"
    BY DEF ProbeScoped
  <2>2. CASE Resolved([mode |-> "scoped", cloud |-> cloud])
    <3>1. cloud = CloudOf(site)
      BY <2>1 DEF AuthInv, Progress
    <3> QED BY <2>1, <2>2, <3>1, ResolvedKeeps
  <2>3. CASE a # "ok" /\ FailsScoped(a) /\ Refuse(a)
    BY <2>1, <2>3, GatewayFails
  <2> QED BY <2>2, <2>3 DEF ProbeScoped
<1>4. CASE UNCHANGED authVars
  BY <1>4 DEF authVars, AuthInv, Progress, ResolutionSound, AuthTypeOK, FallbackAfterRefusal,
     BlameFounded, RightTenant, CloudOf
<1> QED BY <1>1, <1>2, <1>3, <1>4 DEF AuthNext

LEMMA AuthInitial == AuthInit => AuthInv
BY SitesAssumption DEF AuthInit, AuthInv, Progress, ResolutionSound, AuthTypeOK, First, CloudOf,
   FallbackAfterRefusal, BlameFounded, RightTenant

\* Credential resolution falls back only after a refusal, blames only what was refused,
\* and leads every host whose cloud ID it looks up to its own tenant, whatever is answered.
THEOREM ResolutionCorrect == AuthSpec => []ResolutionSound
<1>1. AuthInit => AuthInv
  BY AuthInitial
<1>2. AuthInv /\ [AuthNext]_authVars => AuthInv'
  BY AuthStep
<1>3. AuthInv => ResolutionSound
  BY DEF AuthInv
<1> QED BY <1>1, <1>2, <1>3, PTL DEF AuthSpec
=============================================================================
