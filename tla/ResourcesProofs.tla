--------------------------- MODULE ResourcesProofs ---------------------------
(***************************************************************************)
(* What the objects that are written are, for all Values: which there are, *)
(* what they refer to, their bundles, certificate and permissions.  These  *)
(* are the lemmas that the proofs about their rollout rest on.             *)
(***************************************************************************)
EXTENDS Rollout, TLAPS

\* Every value of a function given by pairs comes from one of the pairs.
LEMMA FunctionFacts ==
    ASSUME NEW pairs
    PROVE  /\ \A p \in pairs : p[1] \in DOMAIN Function(pairs)
           /\ \A x \in DOMAIN Function(pairs) :
                \E p \in pairs : p[1] = x /\ Function(pairs)[x] = p[2]
<1>1. DOMAIN Function(pairs) = {p[1] : p \in pairs}
    BY DEF Function
<1>2. ASSUME NEW x \in {p[1] : p \in pairs}
      PROVE  \E p \in pairs : p[1] = x /\ Function(pairs)[x] = p[2]
    <2>1. \E p \in pairs : p[1] = x
        OBVIOUS
    <2>. DEFINE q == CHOOSE p \in pairs : p[1] = x
    <2>2. q \in pairs /\ q[1] = x
        BY <2>1
    <2>3. Function(pairs)[x] = q[2]
        BY <1>2 DEF Function
    <2>. QED BY <2>2, <2>3
<1>. QED
    BY <1>1, <1>2

\* The kind of an object, from its name.
LEMMA Kinds ==
    /\ \A kind, name : Global(kind, name).kind = kind
    /\ \A kind, name : System(kind, name).kind = kind
    /\ \A kind, name : Seed(kind, name).kind = kind
    /\ \A name : CRD(name).kind = "CustomResourceDefinition"
BY DEF Global, System, Seed, CRD, Id

\* The webhooks are the only objects of the shoot that have a bundle.
LEMMA ShootBundle ==
    ASSUME NEW v
    PROVE  /\ HaveBundles(shootResources(v), {v.bundle})
           /\ DeploymentId \notin DOMAIN shootResources(v)
<1>. DEFINE Pairs == accessObjects \cup webhookObjects(v) \cup crds
<1>1. \A p \in accessObjects : p[1].kind \notin WebhookKinds \cup {"Deployment"}
    BY Kinds DEF accessObjects, WebhookKinds
<1>2. \A p \in crds : p[1].kind \notin WebhookKinds \cup {"Deployment"}
    BY Kinds DEF crds, WebhookKinds
<1>3. \A p \in webhookObjects(v) :
        /\ p[1].kind # "Deployment"
        /\ p[2] \in {validatingWebhookConfiguration(v), mutatingWebhookConfiguration(v)}
    BY Kinds DEF webhookObjects
<1>4. \A w \in validatingWebhookConfiguration(v).webhooks : w.bundle = v.bundle
    BY DEF validatingWebhookConfiguration, Webhook
<1>5. \A w \in mutatingWebhookConfiguration(v).webhooks : w.bundle = v.bundle
    BY DEF mutatingWebhookConfiguration, Webhook
<1>6. \A p \in Pairs :
        /\ p[1].kind # "Deployment"
        /\ p[1].kind \in WebhookKinds => \A w \in p[2].webhooks : w.bundle = v.bundle
    BY <1>1, <1>2, <1>3, <1>4, <1>5
<1>. HIDE DEF Pairs
<1>7. HaveBundles(Function(Pairs), {v.bundle})
    BY <1>6, FunctionFacts DEF HaveBundles
<1>8. DeploymentId \notin DOMAIN Function(Pairs)
    BY <1>6, FunctionFacts, Kinds DEF DeploymentId
<1>. QED
    BY <1>7, <1>8 DEF shootResources, Pairs

\* The base options are the only object of the seed that may be there or not.
LEMMA BaseOptionsPair ==
    ASSUME NEW v, NEW p \in baseOptionsConfigMap(v)
    PROVE  p[1] = BaseOptions
<1>. DEFINE data == [refs |-> {}, data |-> v.base]
<1>1. p = <<BaseOptions, data>>
    BY Zenon DEF baseOptionsConfigMap
<1>. HIDE DEF data
<1>. QED
    BY <1>1

\* The certificate a Deployment mounts, which is a name that tells its CA.
LEMMA DeploymentCert ==
    ASSUME NEW v
    PROVE  deployment(v).mounts[webhookTLSMountPath] = WebhookTLS(v.tls)
<1>. DEFINE Mounts == {<<configMountPath, Seed("ConfigMap", DikiOperatorName)>>,
                       <<webhookTLSMountPath, WebhookTLS(v.tls)>>,
                       <<kubeconfigMountPath, GenericKubeconfig>>}
<1>1. deployment(v).mounts = Function(Mounts)
    BY DEF deployment
<1>2. \A p \in Mounts : p[1] = webhookTLSMountPath => p[2] = WebhookTLS(v.tls)
    BY DEF configMountPath, webhookTLSMountPath, kubeconfigMountPath
<1>3. <<webhookTLSMountPath, WebhookTLS(v.tls)>> \in Mounts
    OBVIOUS
<1>4. <<webhookTLSMountPath, WebhookTLS(v.tls)>>[1] = webhookTLSMountPath
    OBVIOUS
<1>. HIDE DEF Mounts
<1>5. webhookTLSMountPath \in DOMAIN Function(Mounts)
    BY <1>3, <1>4, FunctionFacts
<1>. QED
    BY <1>1, <1>2, <1>5, FunctionFacts

LEMMA CertNames == ASSUME NEW n, NEW m, WebhookTLS(n) = WebhookTLS(m) PROVE n = m
<1>1. WebhookTLS(n).ca = n /\ WebhookTLS(m).ca = m
    BY DEF WebhookTLS
<1>. QED
    BY <1>1

\* The Deployment mounts the certificate of the Values; the seed has no webhooks.
LEMMA SeedCert ==
    ASSUME NEW v
    PROVE  /\ MountsCert(seedResources(v), {v.tls})
           /\ \A id \in DOMAIN seedResources(v) : id.kind \notin WebhookKinds
<1>. DEFINE Pairs == seedObjects(v) \cup baseOptionsConfigMap(v)
<1>1. \A p \in baseOptionsConfigMap(v) : p[1].kind = "ConfigMap"
    BY BaseOptionsPair, Kinds DEF BaseOptions
<1>2. \A p \in seedObjects(v) : p[1].kind \notin WebhookKinds
    BY Kinds DEF seedObjects, WebhookKinds
<1>3. \A p \in seedObjects(v) : p[1] = DeploymentId => p[2] = deployment(v)
    BY Kinds DEF seedObjects, DeploymentId
<1>4. DeploymentId.kind = "Deployment"
    BY Kinds DEF DeploymentId
<1>5. /\ \A p \in Pairs : p[1].kind \notin WebhookKinds
      /\ \A p \in Pairs : p[1] = DeploymentId => p[2] = deployment(v)
    BY <1>1, <1>2, <1>3, <1>4 DEF WebhookKinds
<1>6. <<DeploymentId, deployment(v)>> \in Pairs
    BY DEF seedObjects, DeploymentId
<1>7. <<DeploymentId, deployment(v)>>[1] = DeploymentId
    OBVIOUS
<1>. HIDE DEF Pairs
<1>8. DeploymentId \in DOMAIN Function(Pairs)
    BY <1>6, <1>7, FunctionFacts
<1>9. Function(Pairs)[DeploymentId] = deployment(v)
    BY <1>5, <1>8, FunctionFacts
<1>10. MountsCert(Function(Pairs), {v.tls})
    BY <1>8, <1>9, DeploymentCert DEF MountsCert
<1>11. \A id \in DOMAIN Function(Pairs) : id.kind \notin WebhookKinds
    BY <1>5, FunctionFacts
<1>. QED
    BY <1>10, <1>11 DEF seedResources, Pairs

-----------------------------------------------------------------------------
(* Which objects there are.                                                  *)

\* The objects of the shoot, whatever the Values are.
ShootIds == {p[1] : p \in accessObjects \cup crds} \cup
    {Global("ValidatingWebhookConfiguration", "gardener-extension-diki"),
     Global("MutatingWebhookConfiguration", "gardener-extension-diki")}

\* Those of the seed but for the base options.
SeedIds ==
    {Seed("ServiceAccount", DikiOperatorName), Seed("ServiceAccount", "diki-run"),
     Seed("ConfigMap", DikiOperatorName), Seed("Deployment", DikiOperatorName),
     Seed("Service", DikiOperatorName), Seed("ServiceMonitor", MonitorName),
     Seed("VerticalPodAutoscaler", DikiOperatorName),
     Seed("Role", DikiOperatorName), Seed("RoleBinding", DikiOperatorName)}

LEMMA DomainOfPairs ==
    ASSUME NEW pairs PROVE DOMAIN Function(pairs) = {p[1] : p \in pairs}
BY DEF Function

LEMMA ShootDomain == ASSUME NEW v PROVE DOMAIN shootResources(v) = ShootIds
<1>1. {p[1] : p \in webhookObjects(v)} =
        {Global("ValidatingWebhookConfiguration", "gardener-extension-diki"),
         Global("MutatingWebhookConfiguration", "gardener-extension-diki")}
    BY DEF webhookObjects
<1>2. DOMAIN shootResources(v) =
        {p[1] : p \in accessObjects \cup webhookObjects(v) \cup crds}
    BY DomainOfPairs DEF shootResources
<1>3. DOMAIN shootResources(v) =
        {p[1] : p \in accessObjects \cup crds} \cup {p[1] : p \in webhookObjects(v)}
    BY <1>2
<1>. QED
    BY <1>1, <1>3 DEF ShootIds

LEMMA SeedDomain ==
    ASSUME NEW v
    PROVE  DOMAIN seedResources(v) \in {SeedIds, SeedIds \cup {BaseOptions}}
<1>1. {p[1] : p \in seedObjects(v)} = SeedIds
    BY DEF seedObjects, SeedIds
<1>2. DOMAIN seedResources(v) = SeedIds \cup {p[1] : p \in baseOptionsConfigMap(v)}
    <2>1. DOMAIN seedResources(v) =
            {p[1] : p \in seedObjects(v) \cup baseOptionsConfigMap(v)}
        BY DomainOfPairs DEF seedResources
    <2>2. @ = {p[1] : p \in seedObjects(v)} \cup {p[1] : p \in baseOptionsConfigMap(v)}
        OBVIOUS
    <2>. QED BY <1>1, <2>1, <2>2
<1>3. {p[1] : p \in baseOptionsConfigMap(v)} \subseteq {BaseOptions}
    BY BaseOptionsPair
<1>. QED
    BY <1>2, <1>3

-----------------------------------------------------------------------------
(* The base options.                                                         *)

ConfigId == Seed("ConfigMap", DikiOperatorName)

LEMMA ConfigIdFacts ==
    /\ ConfigId.kind = "ConfigMap" /\ BaseOptions.kind = "ConfigMap"
    /\ ConfigId.name = "diki-operator" /\ BaseOptions.name = "diki-base-options"
    /\ ConfigId # BaseOptions
<1>1. /\ ConfigId.kind = "ConfigMap" /\ BaseOptions.kind = "ConfigMap"
      /\ ConfigId.name = "diki-operator" /\ BaseOptions.name = "diki-base-options"
    BY DEF ConfigId, BaseOptions, Seed, Id, DikiOperatorName
<1>. QED
    BY <1>1

LEMMA NoConfigMapInShoot == \A id \in ShootIds : id.kind # "ConfigMap"
<1>1. \A p \in accessObjects : p[1].kind # "ConfigMap"
    BY Kinds DEF accessObjects
<1>2. \A p \in crds : p[1].kind # "ConfigMap"
    BY Kinds DEF crds
<1>. QED
    BY <1>1, <1>2, Kinds DEF ShootIds

LEMMA SeedOptions ==
    ASSUME NEW v
    PROVE  /\ ConfigId \in DOMAIN seedResources(v)
           /\ seedResources(v)[ConfigId] = operatorConfig(v)
           /\ BaseOptions \in DOMAIN seedResources(v) <=> v.base # ""
           /\ v.base # "" => seedResources(v)[BaseOptions].data = v.base
<1>. DEFINE Pairs == seedObjects(v) \cup baseOptionsConfigMap(v)
            Object == [refs |-> {}, data |-> v.base]
<1>1. v.base = "" => baseOptionsConfigMap(v) = {}
    BY Zenon DEF baseOptionsConfigMap
<1>2. v.base # "" => baseOptionsConfigMap(v) = {<<BaseOptions, Object>>}
    BY Zenon DEF baseOptionsConfigMap
<1>3. Object.data = v.base
    OBVIOUS
<1>. HIDE DEF Object
<1>4. \A p \in seedObjects(v) :
        /\ p[1] = ConfigId => p[2] = operatorConfig(v)
        /\ p[1] # BaseOptions
    <2>. SUFFICES ASSUME NEW p \in seedObjects(v)
                  PROVE  /\ p[1] = ConfigId => p[2] = operatorConfig(v)
                         /\ p[1] # BaseOptions
        OBVIOUS
    <2>1. CASE p = <<ConfigId, operatorConfig(v)>>
        BY <2>1, ConfigIdFacts
    <2>2. CASE p[1].kind # "ConfigMap"
        BY <2>2, ConfigIdFacts
    <2>. QED BY <2>1, <2>2, Kinds DEF seedObjects, ConfigId
<1>5. <<ConfigId, operatorConfig(v)>> \in Pairs
    BY DEF seedObjects, ConfigId
<1>6. <<ConfigId, operatorConfig(v)>>[1] = ConfigId
    OBVIOUS
<1>7. \A p \in Pairs : p[1] = ConfigId => p[2] = operatorConfig(v)
    BY <1>4, BaseOptionsPair, ConfigIdFacts
<1>8. v.base = "" => \A p \in Pairs : p[1] # BaseOptions
    BY <1>1, <1>4
<1>9. \A p \in baseOptionsConfigMap(v) : p[2] = Object
    <2>. SUFFICES ASSUME NEW p \in baseOptionsConfigMap(v) PROVE p[2] = Object
        OBVIOUS
    <2>1. p = <<BaseOptions, Object>>
        BY Zenon, <1>1, <1>2
    <2>. QED BY <2>1
<1>10. v.base # "" =>
        /\ \E p \in Pairs : p[1] = BaseOptions
        /\ \A p \in Pairs : p[1] = BaseOptions => p[2] = Object
    <2>1. v.base # "" => <<BaseOptions, Object>> \in Pairs
        BY <1>2
    <2>2. <<BaseOptions, Object>>[1] = BaseOptions
        OBVIOUS
    <2>. QED BY <1>4, <1>9, <2>1, <2>2
<1>. HIDE DEF Pairs
<1>11. ConfigId \in DOMAIN Function(Pairs)
    BY <1>5, <1>6, FunctionFacts
<1>12. Function(Pairs)[ConfigId] = operatorConfig(v)
    BY <1>7, <1>11, FunctionFacts
<1>13. v.base = "" => BaseOptions \notin DOMAIN Function(Pairs)
    BY <1>8, FunctionFacts
<1>14. v.base # "" => /\ BaseOptions \in DOMAIN Function(Pairs)
                      /\ Function(Pairs)[BaseOptions] = Object
    <2>. SUFFICES ASSUME v.base # ""
                  PROVE  /\ BaseOptions \in DOMAIN Function(Pairs)
                         /\ Function(Pairs)[BaseOptions] = Object
        OBVIOUS
    <2>1. BaseOptions \in DOMAIN Function(Pairs)
        <3>1. PICK p \in Pairs : p[1] = BaseOptions
            BY <1>10
        <3>2. p[1] \in DOMAIN Function(Pairs)
            BY FunctionFacts
        <3>. QED BY <3>1, <3>2
    <2>2. PICK p \in Pairs : p[1] = BaseOptions /\ Function(Pairs)[BaseOptions] = p[2]
        BY <2>1, FunctionFacts
    <2>. QED BY <1>10, <2>1, <2>2
<1>. QED
    BY <1>3, <1>11, <1>12, <1>13, <1>14 DEF seedResources, Pairs

-----------------------------------------------------------------------------
(* Objects from different renderings.                                        *)

\* The objects of both ManagedResources for these Values, with their names.
Rendered(v) ==
    accessObjects \cup webhookObjects(v) \cup crds
    \cup seedObjects(v) \cup baseOptionsConfigMap(v)

\* Each of these objects is rendered from Values, not all from the same.
IsRendered(id, object) ==
    \E v \in Values : \E p \in Rendered(v) : p[1] = id /\ p[2] = object
AreRendered(objects) == \A id \in DOMAIN objects : IsRendered(id, objects[id])

LEMMA ResourcesRendered ==
    ASSUME NEW v \in Values
    PROVE  AreRendered(shootResources(v)) /\ AreRendered(seedResources(v))
<1>. DEFINE ShootPairs == accessObjects \cup webhookObjects(v) \cup crds
            SeedPairs == seedObjects(v) \cup baseOptionsConfigMap(v)
<1>1. ShootPairs \subseteq Rendered(v) /\ SeedPairs \subseteq Rendered(v)
    BY DEF Rendered
<1>. HIDE DEF ShootPairs, SeedPairs
<1>2. AreRendered(Function(ShootPairs))
    BY <1>1, FunctionFacts DEF AreRendered, IsRendered
<1>3. AreRendered(Function(SeedPairs))
    BY <1>1, FunctionFacts DEF AreRendered, IsRendered
<1>. QED
    BY <1>2, <1>3 DEF shootResources, seedResources, ShootPairs, SeedPairs

LEMMA ListedRendered ==
    ASSUME AreRendered(shoot), AreRendered(seed) PROVE AreRendered(Listed)
BY DEF AreRendered, Listed

\* The kinds that the objects of the shoot, and the base options, have.
LEMMA RenderedKinds ==
    ASSUME NEW v, NEW p \in Rendered(v)
    PROVE  \/ p \in accessObjects
              /\ p[1].kind \in {"Role", "ClusterRole", "RoleBinding", "ClusterRoleBinding"}
           \/ p \in webhookObjects(v) /\ p[1].kind \in WebhookKinds
           \/ p \in crds /\ p[1].kind = "CustomResourceDefinition"
           \/ p \in seedObjects(v)
           \/ p[1] = BaseOptions
<1>1. \A q \in accessObjects :
        q[1].kind \in {"Role", "ClusterRole", "RoleBinding", "ClusterRoleBinding"}
    BY Kinds DEF accessObjects
<1>2. \A q \in webhookObjects(v) : q[1].kind \in WebhookKinds
    BY Kinds DEF webhookObjects, WebhookKinds
<1>3. \A q \in crds : q[1].kind = "CustomResourceDefinition"
    BY Kinds DEF crds
<1>. QED
    BY <1>1, <1>2, <1>3, BaseOptionsPair DEF Rendered

\* The objects of the seed through which the operator is found.
LEMMA OperatorObjects ==
    ASSUME NEW v, NEW p \in Rendered(v)
    PROVE  /\ p[1] = DeploymentId => p[2] = deployment(v)
           /\ p[1] = ConfigId => p[2] = operatorConfig(v)
           /\ p[1] = Seed("Service", DikiOperatorName) => p[2] = service
           /\ p[1] = Seed("ServiceMonitor", MonitorName) => p[2] = serviceMonitor
<1>. DEFINE Ids == {DeploymentId, ConfigId, Seed("Service", DikiOperatorName),
                    Seed("ServiceMonitor", MonitorName)}
<1>1. \A id \in Ids :
        /\ id.kind \in {"Deployment", "ConfigMap", "Service", "ServiceMonitor"}
        /\ id # BaseOptions
    BY Kinds, ConfigIdFacts DEF DeploymentId, ConfigId
<1>2. p[1] \in Ids => p \in seedObjects(v)
    BY <1>1, RenderedKinds DEF WebhookKinds
<1>3. /\ DeploymentId.kind = "Deployment" /\ ConfigId.kind = "ConfigMap"
      /\ Seed("Service", DikiOperatorName).kind = "Service"
      /\ Seed("ServiceMonitor", MonitorName).kind = "ServiceMonitor"
    BY Kinds DEF DeploymentId, ConfigId
<1>4. p \in seedObjects(v) =>
        \/ p = <<DeploymentId, deployment(v)>>
        \/ p = <<ConfigId, operatorConfig(v)>>
        \/ p = <<Seed("Service", DikiOperatorName), service>>
        \/ p = <<Seed("ServiceMonitor", MonitorName), serviceMonitor>>
        \/ p[1].kind \notin {"Deployment", "ConfigMap", "Service", "ServiceMonitor"}
    BY Kinds DEF seedObjects, DeploymentId, ConfigId
<1>. HIDE DEF Ids
<1>5. CASE p[1] \in Ids
    BY <1>2, <1>3, <1>4, <1>5
<1>6. CASE p[1] \notin Ids
    BY <1>6 DEF Ids
<1>. QED
    BY <1>5, <1>6

\* A webhook configuration has webhooks, all for the operator's Service and with
\* the bundle of the Values.
LEMMA WebhookObjects ==
    ASSUME NEW v, NEW p \in Rendered(v), p[1].kind \in WebhookKinds
    PROVE  /\ p[2].webhooks # {}
           /\ \A w \in p[2].webhooks :
                /\ w.bundle = v.bundle
                /\ w.url.service = DikiOperatorName /\ w.url.ns = Namespace
                /\ w.url.port = 443
<1>1. \A resource, path :
        LET w == Webhook(resource, path, v)
        IN /\ w.bundle = v.bundle
           /\ w.url.service = DikiOperatorName /\ w.url.ns = Namespace
           /\ w.url.port = 443
    BY DEF Webhook
<1>2. /\ \A q \in seedObjects(v) : q[1].kind \notin WebhookKinds
      /\ BaseOptions.kind \notin WebhookKinds
    BY Kinds DEF seedObjects, WebhookKinds, BaseOptions
<1>3. p \in webhookObjects(v)
    BY <1>2, RenderedKinds DEF WebhookKinds
<1>4. p[2] \in {validatingWebhookConfiguration(v), mutatingWebhookConfiguration(v)}
    BY <1>3 DEF webhookObjects
<1>. QED
    BY <1>1, <1>4 DEF validatingWebhookConfiguration, mutatingWebhookConfiguration

-----------------------------------------------------------------------------
(* What the objects refer to.                                                *)

\* The Secrets that the actuator keeps for these Values.
Secrets(v) == AccessSecrets \cup {WebhookTLS(v.tls)}

\* In the shoot, to objects of the shoot and the two accounts.
LEMMA ShootPairRefs ==
    ASSUME NEW v, NEW p \in accessObjects \cup webhookObjects(v) \cup crds
    PROVE  p[2].refs \subseteq ShootIds \cup Accounts
<1>. DEFINE Roles == {Global("ClusterRole", "diki-operator"),
                      Global("ClusterRole", "scanner.diki.gardener.cloud"),
                      Global("ClusterRole", "exporter.diki.gardener.cloud"),
                      System("Role", "scanner.diki.gardener.cloud"),
                      System("Role", "diki-operator-leader-election")}
            CRDs == {CRD("compliancescans"), CRD("scheduledcompliancescans")}
<1>1. \A q \in accessObjects : q[1] \in ShootIds
    BY DEF ShootIds
<1>2. \A q \in crds : q[1] \in ShootIds
    BY DEF ShootIds
<1>3. Roles \subseteq ShootIds
    <2>1. Roles \subseteq {q[1] : q \in accessObjects}
        BY DEF accessObjects
    <2>. QED BY <1>1, <2>1
<1>4. CRDs \subseteq ShootIds
    <2>1. CRDs \subseteq {q[1] : q \in crds}
        BY DEF crds
    <2>. QED BY <1>2, <2>1
<1>5. /\ operatorClusterRole.refs = {} /\ scannerClusterRole.refs = {}
      /\ scannerRole.refs = {} /\ exporterClusterRole.refs = {}
      /\ roleLeaderElection.refs = {} /\ NoRefs.refs = {}
    BY DEF operatorClusterRole, scannerClusterRole, scannerRole, exporterClusterRole,
        roleLeaderElection, NoRefs
<1>6. /\ operatorClusterRoleBinding.refs \subseteq Roles \cup Accounts
      /\ scannerClusterRoleBinding.refs \subseteq Roles \cup Accounts
      /\ scannerRoleBinding.refs \subseteq Roles \cup Accounts
      /\ exporterClusterRoleBinding.refs \subseteq Roles \cup Accounts
      /\ roleBindingLeaderElection.refs \subseteq Roles \cup Accounts
    BY DEF operatorClusterRoleBinding, scannerClusterRoleBinding, scannerRoleBinding,
        exporterClusterRoleBinding, roleBindingLeaderElection, Binding, Accounts
<1>7. /\ validatingWebhookConfiguration(v).refs \subseteq CRDs
      /\ mutatingWebhookConfiguration(v).refs \subseteq CRDs
    BY DEF validatingWebhookConfiguration, mutatingWebhookConfiguration
<1>. HIDE DEF Roles, CRDs
<1>8. \A q \in accessObjects : q[2].refs \subseteq Roles \cup Accounts
    BY <1>5, <1>6 DEF accessObjects
<1>9. \A q \in webhookObjects(v) : q[2].refs \subseteq CRDs
    BY <1>7 DEF webhookObjects
<1>10. \A q \in crds : q[2].refs = {}
    BY <1>5 DEF crds
<1>. QED
    BY <1>3, <1>4, <1>8, <1>9, <1>10

\* In the seed, to objects that are always there, to Secrets, of which only the
\* Deployment names the certificate, and to the base options if there are any.
LEMMA SeedPairRefs ==
    ASSUME NEW v, NEW p \in seedObjects(v) \cup baseOptionsConfigMap(v)
    PROVE  /\ p[1] = DeploymentId => p[2] = deployment(v)
           /\ p[2].refs \subseteq SeedIds \cup AccessSecrets
                \cup (IF p[1] = DeploymentId THEN {WebhookTLS(v.tls)} ELSE {})
                \cup (IF v.base # "" THEN {BaseOptions} ELSE {})
<1>. DEFINE Base == IF v.base # "" THEN {BaseOptions} ELSE {}
            Known == SeedIds \cup AccessSecrets \cup Base
<1>1. DeploymentId # BaseOptions
    BY Kinds, ConfigIdFacts DEF DeploymentId
<1>2. \A q \in baseOptionsConfigMap(v) : q[1] = BaseOptions /\ q[2].refs = {}
    <2>. SUFFICES ASSUME NEW q \in baseOptionsConfigMap(v) PROVE q[2].refs = {}
        BY BaseOptionsPair
    <2>. DEFINE data == [refs |-> {}, data |-> v.base]
    <2>1. q = <<BaseOptions, data>>
        BY Zenon DEF baseOptionsConfigMap
    <2>2. data.refs = {}
        OBVIOUS
    <2>. HIDE DEF data
    <2>. QED BY <2>1, <2>2
<1>3. operatorConfig(v).refs \subseteq Known
    BY DEF operatorConfig, AccessSecrets
<1>4. deployment(v).refs \subseteq Known \cup {WebhookTLS(v.tls)}
    BY DEF deployment, AccessSecrets, SeedIds
<1>5. /\ NoRefs.refs = {} /\ service.refs = {} /\ serviceMonitor.refs = {} /\ role.refs = {}
    BY DEF NoRefs, service, serviceMonitor, role
<1>6. roleBinding.refs \subseteq Known /\ verticalPodAutoscaler.refs \subseteq Known
    BY DEF roleBinding, Binding, verticalPodAutoscaler, SeedIds
<1>. HIDE DEF Known
<1>7. ASSUME NEW q \in seedObjects(v)
      PROVE  \/ q = <<DeploymentId, deployment(v)>>
             \/ q[1] # DeploymentId /\ q[2].refs \subseteq Known
    <2>1. CASE q = <<DeploymentId, deployment(v)>>
        BY <2>1
    <2>2. CASE q[1].kind # "Deployment" /\ q[2].refs \subseteq Known
        BY <2>2, Kinds DEF DeploymentId
    <2>. QED BY <2>1, <2>2, <1>3, <1>5, <1>6, Kinds DEF seedObjects, DeploymentId
<1>8. CASE p \in baseOptionsConfigMap(v)
    BY <1>1, <1>2, <1>8
<1>9. CASE p = <<DeploymentId, deployment(v)>>
    BY <1>4, <1>9 DEF Known
<1>10. CASE p[1] # DeploymentId /\ p[2].refs \subseteq Known
    BY <1>10 DEF Known
<1>. QED
    BY <1>7, <1>8, <1>9, <1>10

\* What is rendered for these Values resolves, given their Secrets.
LEMMA ResourcesRefs ==
    ASSUME NEW v
    PROVE  /\ \A id \in DOMAIN shootResources(v) :
                shootResources(v)[id].refs \subseteq ShootIds \cup Accounts
           /\ \A id \in DOMAIN seedResources(v) :
                seedResources(v)[id].refs \subseteq DOMAIN seedResources(v) \cup Secrets(v)
<1>. DEFINE ShootPairs == accessObjects \cup webhookObjects(v) \cup crds
            SeedPairs == seedObjects(v) \cup baseOptionsConfigMap(v)
            Known == DOMAIN seedResources(v) \cup Secrets(v)
<1>1. \A p \in ShootPairs : p[2].refs \subseteq ShootIds \cup Accounts
    BY ShootPairRefs
<1>2. \A p \in SeedPairs : p[2].refs \subseteq Known
    <2>1. SeedIds \subseteq DOMAIN seedResources(v)
        BY SeedDomain
    <2>2. v.base # "" => BaseOptions \in DOMAIN seedResources(v)
        BY SeedOptions
    <2>. QED BY <2>1, <2>2, SeedPairRefs DEF Secrets
<1>. HIDE DEF ShootPairs, SeedPairs, Known
<1>3. \A id \in DOMAIN Function(ShootPairs) :
        Function(ShootPairs)[id].refs \subseteq ShootIds \cup Accounts
    BY <1>1, FunctionFacts
<1>4. \A id \in DOMAIN Function(SeedPairs) : Function(SeedPairs)[id].refs \subseteq Known
    BY <1>2, FunctionFacts
<1>. QED
    BY <1>3, <1>4 DEF shootResources, seedResources, ShootPairs, SeedPairs, Known

\* What is rendered for any Values may miss the base options, and the Deployment
\* the certificate it mounts.
LEMMA RenderedRefs ==
    ASSUME NEW v, NEW p \in Rendered(v)
    PROVE  p[2].refs \subseteq ShootIds \cup SeedIds \cup Accounts \cup AccessSecrets
            \cup {BaseOptions} \cup
            IF p[1] = DeploymentId THEN {p[2].mounts[webhookTLSMountPath]} ELSE {}
<1>1. CASE p \in accessObjects \cup webhookObjects(v) \cup crds
    BY <1>1, ShootPairRefs
<1>2. CASE p \in seedObjects(v) \cup baseOptionsConfigMap(v)
    BY <1>2, SeedPairRefs, DeploymentCert
<1>. QED
    BY <1>1, <1>2 DEF Rendered

-----------------------------------------------------------------------------
(* What the accounts may do.                                                 *)

Bindings == {"RoleBinding", "ClusterRoleBinding"}

\* The roles that the accounts are bound to; the operator's role in the seed, for
\* an account of the same name, if the shoot's namespace were kube-system.
OperatorRoles ==
    {Global("ClusterRole", "diki-operator"), System("Role", "diki-operator-leader-election"),
     Seed("Role", DikiOperatorName)}
RunnerRoles ==
    {Global("ClusterRole", "scanner.diki.gardener.cloud"),
     Global("ClusterRole", "exporter.diki.gardener.cloud"),
     System("Role", "scanner.diki.gardener.cloud")}

\* The names that tell accounts and roles from each other.
LEMMA AccountNames ==
    /\ OperatorAccount.name = "diki-operator" /\ RunnerAccount.name = "diki-runner"
    /\ Seed("ServiceAccount", DikiOperatorName).name = "diki-operator"
BY DEF OperatorAccount, RunnerAccount, System, Seed, Id, DikiOperatorName

LEMMA RoleNames ==
    /\ Global("ClusterRole", "diki-operator").kind = "ClusterRole"
    /\ Global("ClusterRole", "diki-operator").name = "diki-operator"
    /\ Global("ClusterRole", "scanner.diki.gardener.cloud").kind = "ClusterRole"
    /\ Global("ClusterRole", "scanner.diki.gardener.cloud").name = "scanner.diki.gardener.cloud"
    /\ Global("ClusterRole", "exporter.diki.gardener.cloud").kind = "ClusterRole"
    /\ Global("ClusterRole", "exporter.diki.gardener.cloud").name = "exporter.diki.gardener.cloud"
    /\ System("Role", "scanner.diki.gardener.cloud").kind = "Role"
    /\ System("Role", "scanner.diki.gardener.cloud").name = "scanner.diki.gardener.cloud"
    /\ System("Role", "diki-operator-leader-election").kind = "Role"
    /\ System("Role", "diki-operator-leader-election").name = "diki-operator-leader-election"
    /\ Seed("Role", DikiOperatorName).kind = "Role"
    /\ Seed("Role", DikiOperatorName).name = "diki-operator"
BY DEF Global, System, Seed, Id, DikiOperatorName

LEMMA BindingNames ==
    /\ Global("ClusterRoleBinding", "diki-operator").kind = "ClusterRoleBinding"
    /\ Global("ClusterRoleBinding", "diki-operator").name = "diki-operator"
    /\ Global("ClusterRoleBinding", "diki-scanner").kind = "ClusterRoleBinding"
    /\ Global("ClusterRoleBinding", "diki-scanner").name = "diki-scanner"
    /\ Global("ClusterRoleBinding", "diki-exporter").kind = "ClusterRoleBinding"
    /\ Global("ClusterRoleBinding", "diki-exporter").name = "diki-exporter"
    /\ System("RoleBinding", "diki-scanner").kind = "RoleBinding"
    /\ System("RoleBinding", "diki-scanner").name = "diki-scanner"
    /\ System("RoleBinding", "diki-scanner").ns = "kube-system"
    /\ System("RoleBinding", "diki-operator-leader-election").kind = "RoleBinding"
    /\ System("RoleBinding", "diki-operator-leader-election").name = "diki-operator-leader-election"
    /\ Seed("RoleBinding", DikiOperatorName).kind = "RoleBinding"
    /\ Seed("RoleBinding", DikiOperatorName).name = "diki-operator"
BY DEF Global, System, Seed, Id, DikiOperatorName

\* Which binding gives which role to which account.
LEMMA BindingObjects ==
    ASSUME NEW v, NEW p \in Rendered(v), p[1].kind \in Bindings
    PROVE  /\ p[2].account = OperatorAccount => p[2].role \in OperatorRoles
           /\ p[2].account = RunnerAccount =>
                /\ p[2].role \in RunnerRoles
                /\ p[2].role.kind = "Role" => p[1].ns = "kube-system"
           /\ p[1] = Global("ClusterRoleBinding", "diki-operator") =>
                p[2].account = OperatorAccount /\ p[2].role = Global("ClusterRole", "diki-operator")
           /\ p[1] = System("RoleBinding", "diki-scanner") =>
                /\ p[2].account = RunnerAccount
                /\ p[2].role = System("Role", "scanner.diki.gardener.cloud")
<1>1. p \in accessObjects \cup seedObjects(v)
    BY RenderedKinds, ConfigIdFacts DEF Bindings, WebhookKinds
<1>2. \/ p = <<Global("ClusterRoleBinding", "diki-operator"), operatorClusterRoleBinding>>
      \/ p = <<Global("ClusterRoleBinding", "diki-scanner"), scannerClusterRoleBinding>>
      \/ p = <<System("RoleBinding", "diki-scanner"), scannerRoleBinding>>
      \/ p = <<Global("ClusterRoleBinding", "diki-exporter"), exporterClusterRoleBinding>>
      \/ p = <<System("RoleBinding", "diki-operator-leader-election"), roleBindingLeaderElection>>
      \/ p = <<Seed("RoleBinding", DikiOperatorName), roleBinding>>
    <2>1. CASE p \in accessObjects
        BY <2>1, Kinds DEF accessObjects, Bindings
    <2>2. CASE p \in seedObjects(v)
        BY <2>2, Kinds DEF seedObjects, Bindings
    <2>. QED BY <1>1, <2>1, <2>2
<1>3. \A aRole, anAccount :
        /\ Binding(aRole, anAccount).role = aRole
        /\ Binding(aRole, anAccount).account = anAccount
    BY DEF Binding
<1>4. /\ DikiOperatorName = "diki-operator"
      /\ Seed("ServiceAccount", DikiOperatorName) # RunnerAccount
      /\ OperatorAccount # RunnerAccount
    BY AccountNames DEF DikiOperatorName
<1>5. /\ operatorClusterRoleBinding.account = OperatorAccount
      /\ operatorClusterRoleBinding.role = Global("ClusterRole", "diki-operator")
      /\ scannerClusterRoleBinding.account = RunnerAccount
      /\ scannerClusterRoleBinding.role = Global("ClusterRole", "scanner.diki.gardener.cloud")
      /\ scannerRoleBinding.account = RunnerAccount
      /\ scannerRoleBinding.role = System("Role", "scanner.diki.gardener.cloud")
      /\ exporterClusterRoleBinding.account = RunnerAccount
      /\ exporterClusterRoleBinding.role = Global("ClusterRole", "exporter.diki.gardener.cloud")
      /\ roleBindingLeaderElection.account = OperatorAccount
      /\ roleBindingLeaderElection.role = System("Role", "diki-operator-leader-election")
      /\ roleBinding.account = Seed("ServiceAccount", DikiOperatorName)
      /\ roleBinding.role = Seed("Role", DikiOperatorName)
    BY <1>3 DEF operatorClusterRoleBinding, scannerClusterRoleBinding, scannerRoleBinding,
        exporterClusterRoleBinding, roleBindingLeaderElection, roleBinding
<1>6. /\ p[2].account = OperatorAccount => p[2].role \in OperatorRoles
      /\ p[2].account = RunnerAccount => p[2].role \in RunnerRoles
    BY <1>2, <1>4, <1>5 DEF OperatorRoles, RunnerRoles
<1>7. p[2].account = RunnerAccount /\ p[2].role.kind = "Role" => p[1].ns = "kube-system"
    BY <1>2, <1>4, <1>5, RoleNames, BindingNames
<1>8. p[1] = Global("ClusterRoleBinding", "diki-operator") => p[2] = operatorClusterRoleBinding
    BY <1>2, BindingNames
<1>9. p[1] = System("RoleBinding", "diki-scanner") => p[2] = scannerRoleBinding
    BY <1>2, BindingNames
<1>. QED
    BY <1>5, <1>6, <1>7, <1>8, <1>9

\* The rules of these roles.
LEMMA RoleObjects ==
    ASSUME NEW v, NEW p \in Rendered(v)
    PROVE  /\ p[1] = Global("ClusterRole", "diki-operator") => p[2] = operatorClusterRole
           /\ p[1] = System("Role", "diki-operator-leader-election") => p[2] = roleLeaderElection
           /\ p[1] = Seed("Role", DikiOperatorName) => p[2] = role
           /\ p[1] = Global("ClusterRole", "scanner.diki.gardener.cloud") =>
                p[2] = scannerClusterRole
           /\ p[1] = Global("ClusterRole", "exporter.diki.gardener.cloud") =>
                p[2] = exporterClusterRole
           /\ p[1] = System("Role", "scanner.diki.gardener.cloud") => p[2] = scannerRole
<1>1. CASE p[1].kind \in {"Role", "ClusterRole"}
    <2>1. p \in accessObjects \cup seedObjects(v)
        BY <1>1, RenderedKinds, ConfigIdFacts DEF WebhookKinds
    <2>2. \/ p = <<Global("ClusterRole", "diki-operator"), operatorClusterRole>>
          \/ p = <<Global("ClusterRole", "scanner.diki.gardener.cloud"), scannerClusterRole>>
          \/ p = <<System("Role", "scanner.diki.gardener.cloud"), scannerRole>>
          \/ p = <<Global("ClusterRole", "exporter.diki.gardener.cloud"), exporterClusterRole>>
          \/ p = <<System("Role", "diki-operator-leader-election"), roleLeaderElection>>
          \/ p = <<Seed("Role", DikiOperatorName), role>>
        <3>1. CASE p \in accessObjects
            BY <1>1, <3>1, Kinds DEF accessObjects
        <3>2. CASE p \in seedObjects(v)
            BY <1>1, <3>2, Kinds DEF seedObjects
        <3>. QED BY <2>1, <3>1, <3>2
    <2>. QED BY <2>2, RoleNames
<1>2. CASE p[1].kind \notin {"Role", "ClusterRole"}
    BY <1>2, Kinds
<1>. QED
    BY <1>1, <1>2

\* What the operator may do: its work on scans, but nothing with pods.
LEMMA OperatorRules ==
    /\ \A verb \in {"get", "update", "delete"} :
        <<"compliancescans", verb>> \in operatorClusterRole.rules
    /\ \A r \in operatorClusterRole.rules \cup roleLeaderElection.rules \cup role.rules :
        r[1] \notin {"pods", "pods/exec"}
<1>1. \A resources, verbs :
        /\ \A resource \in resources, verb \in verbs :
            <<resource, verb>> \in Rules(resources, verbs)
        /\ \A r \in Rules(resources, verbs) : r[1] \in resources /\ r[2] \in verbs
    BY DEF Rules
<1>2. \A verb \in {"get", "update", "delete"} :
        <<"compliancescans", verb>> \in operatorClusterRole.rules
    BY <1>1 DEF operatorClusterRole, Maintain
<1>3. \A r \in operatorClusterRole.rules : r[1] \notin {"pods", "pods/exec"}
    BY <1>1 DEF operatorClusterRole
<1>4. \A r \in roleLeaderElection.rules : r[1] \notin {"pods", "pods/exec"}
    BY <1>1 DEF roleLeaderElection
<1>5. \A r \in role.rules : r[1] \notin {"pods", "pods/exec"}
    BY <1>1 DEF role
<1>. QED
    BY <1>2, <1>3, <1>4, <1>5

\* What the runner may do: all but read is in the Role, and nothing with scans.
LEMMA RunnerRules ==
    /\ <<"pods/exec", "create">> \in scannerRole.rules
    /\ \A r \in scannerClusterRole.rules \cup exporterClusterRole.rules :
        r[1] \in {"pods", "pods/exec"} => r[2] \in Read
    /\ \A r \in scannerClusterRole.rules \cup exporterClusterRole.rules \cup scannerRole.rules :
        r[1] \in {"compliancescans", "scheduledcompliancescans"} => r[2] \in Read
<1>1. \A resources, verbs :
        /\ \A resource \in resources, verb \in verbs :
            <<resource, verb>> \in Rules(resources, verbs)
        /\ \A r \in Rules(resources, verbs) : r[1] \in resources /\ r[2] \in verbs
    BY DEF Rules
<1>2. <<"pods/exec", "create">> \in scannerRole.rules
    BY <1>1 DEF scannerRole
<1>3. \A r \in scannerRole.rules : r[1] \in {"pods", "pods/exec"}
    BY <1>1 DEF scannerRole
<1>4. \A r \in scannerClusterRole.rules : r[2] \in Read
    BY <1>1 DEF scannerClusterRole
<1>5. \A r \in exporterClusterRole.rules :
        /\ r[1] \notin {"pods", "pods/exec"}
        /\ r[1] \in {"compliancescans", "scheduledcompliancescans"} => r[2] \in Read
    BY <1>1 DEF exporterClusterRole, Read
<1>. QED
    BY <1>2, <1>3, <1>4, <1>5

=============================================================================
