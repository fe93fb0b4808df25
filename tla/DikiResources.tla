--------------------------- MODULE DikiResources ---------------------------
(***************************************************************************)
(* pkg/component/dikioperator/seed_resources.go and shoot_resources.go: the*)
(* objects of the two ManagedResources as functions of the component's     *)
(* Values.  An object is what other objects and properties depend on: the  *)
(* objects it refers to ("refs"), ports, labels, mounts, rules, bundles.   *)
(***************************************************************************)
EXTENDS Naturals, FiniteSets

CONSTANT Namespace    \* of the shoot, in the seed

Id(kind, ns, name) == [kind |-> kind, ns |-> ns, name |-> name]
Seed(kind, name) == Id(kind, Namespace, name)
System(kind, name) == Id(kind, "kube-system", name)
Global(kind, name) == Id(kind, "", name)
CRD(resources) == Global("CustomResourceDefinition", resources)

\* The function given by its pairs <<argument, value>>.
Function(pairs) ==
    [x \in {p[1] : p \in pairs} |-> (CHOOSE p \in pairs : p[1] = x)[2]]

DikiOperatorName == "diki-operator"
BaseOptions == Seed("ConfigMap", "diki-base-options")
portHealth == 8081
portMetrics == 8080
portWebhook == 10443
configMountPath == "/etc/diki-operator/config"
webhookTLSMountPath == "/etc/diki-operator/webhooks/tls"
kubeconfigMountPath == "/var/run/secrets/gardener.cloud/shoot/generic-kubeconfig"

\* Secrets and service accounts the objects name, made by others: the actuator,
\* and gardenlet's token requestor in the shoot.  The name of a certificate
\* changes with the CA that signs it.
GenericKubeconfig == Seed("Secret", "generic-token-kubeconfig")
OperatorAccess == Seed("Secret", "shoot-access-diki-operator")
RunnerAccess == Seed("Secret", "shoot-access-diki-runner")
OperatorAccount == System("ServiceAccount", "diki-operator")
RunnerAccount == System("ServiceAccount", "diki-runner")
WebhookTLS(n) ==
    [kind |-> "Secret", ns |-> Namespace, name |-> "diki-operator-tls", ca |-> n]

\* Mutant: the certificate is for a Service in the shoot.
DNSNamesInShoot == {<<DikiOperatorName, "kube-system">>}

\* The certificate's DNS names, as <<service, namespace>>.
DNSNames == {<<DikiOperatorName, Namespace>>}

labels == {"name=diki-operator"}
podLabels ==
    {"name=diki-operator", "to-dns", "to-runtime-apiserver", "to-kube-apiserver"}

-----------------------------------------------------------------------------
(* Seed objects.                                                            *)

Binding(role, account) == [refs |-> {role, account}, role |-> role, account |-> account]
Rules(resources, verbs) == resources \X verbs
NoRefs == [refs |-> {}]

\* The configuration file of the operator; base options only if there are any.
operatorConfig(v) ==
    [refs     |-> {GenericKubeconfig, RunnerAccess}
                  \cup (IF v.base # "" THEN {BaseOptions} ELSE {}),
     health   |-> portHealth,
     metrics  |-> portMetrics,
     webhook  |-> portWebhook,
     certDir  |-> webhookTLSMountPath]

\* With the injected generic kubeconfig, which needs the operator's access Secret.
deployment(v) ==
    [refs     |-> {Seed("ServiceAccount", DikiOperatorName),
                   Seed("ConfigMap", DikiOperatorName),
                   WebhookTLS(v.tls), GenericKubeconfig, OperatorAccess},
     replicas |-> v.replicas,
     selector |-> labels,
     labels   |-> podLabels,
     mounts   |-> Function({<<configMountPath, Seed("ConfigMap", DikiOperatorName)>>,
                            <<webhookTLSMountPath, WebhookTLS(v.tls)>>,
                            <<kubeconfigMountPath, GenericKubeconfig>>}),
     ports    |-> {portHealth, portMetrics, portWebhook},
     probe    |-> portHealth]

\* With the injected annotations that open the NetworkPolicy for these ports.
service ==
    [refs     |-> {},
     labels   |-> labels,
     selector |-> labels,
     ports    |-> [metrics  |-> [port |-> portMetrics, target |-> portMetrics],
                   webhooks |-> [port |-> 443, target |-> portWebhook]],
     allowed  |-> [scrape |-> portMetrics, webhook |-> portWebhook]]

\* Its name has the prefix of the Prometheus that is to find it.
MonitorName == "shoot-diki-operator"

serviceMonitor == [refs |-> {}, selector |-> labels, port |-> "metrics"]

role ==
    [refs |-> {},
     rules |-> Rules({"configmaps"}, {"get", "create"})
               \cup Rules({"jobs"}, {"get", "list", "watch", "create",
                                     "update", "patch", "delete"})]

roleBinding ==
    Binding(Seed("Role", DikiOperatorName), Seed("ServiceAccount", DikiOperatorName))

verticalPodAutoscaler == [refs |-> {Seed("Deployment", DikiOperatorName)}]

\* Mutant: the base options are kept when they are no longer configured.
OptionsAlways(v) == {<<BaseOptions, [refs |-> {}, data |-> v.base]>>}

baseOptionsConfigMap(v) ==
    IF v.base = "" THEN {} ELSE {<<BaseOptions, [refs |-> {}, data |-> v.base]>>}

\* Mutant: the name of the operator's ConfigMap depends on what is in it.
configMapName(v) == IF v.base = "" THEN "diki-operator" ELSE "diki-operator-with-options"
seedResourcesVersioned(v) ==
    Function({<<Seed("ConfigMap", configMapName(v)), operatorConfig(v)>>,
              <<Seed("Deployment", DikiOperatorName), deployment(v)>>,
              <<Seed("Service", DikiOperatorName), service>>}
             \cup baseOptionsConfigMap(v))

seedObjects(v) ==
    {<<Seed("ServiceAccount", DikiOperatorName), NoRefs>>,
     <<Seed("ServiceAccount", "diki-run"), NoRefs>>,
     <<Seed("ConfigMap", DikiOperatorName), operatorConfig(v)>>,
     <<Seed("Deployment", DikiOperatorName), deployment(v)>>,
     <<Seed("Service", DikiOperatorName), service>>,
     <<Seed("ServiceMonitor", MonitorName), serviceMonitor>>,
     <<Seed("VerticalPodAutoscaler", DikiOperatorName), verticalPodAutoscaler>>,
     <<Seed("Role", DikiOperatorName), role>>,
     <<Seed("RoleBinding", DikiOperatorName), roleBinding>>}

seedResources(v) == Function(seedObjects(v) \cup baseOptionsConfigMap(v))

-----------------------------------------------------------------------------
(* Shoot objects: what the two accounts may do, the webhooks, the CRDs.     *)

Read == {"get", "list"}
Watch == {"get", "list", "watch"}
Maintain == {"get", "list", "watch", "update", "patch"}

operatorClusterRole ==
    [refs  |-> {},
     rules |-> Rules({"compliancescans"}, {"create", "delete"})
               \cup Rules({"compliancescans", "compliancescans/status",
                           "scheduledcompliancescans", "scheduledcompliancescans/status"},
                          Maintain)
               \cup Rules({"configmaps", "reportoutputs"}, Watch)]

\* Mutant: the operator's role is bound to the account of the runner.
operatorBoundToRunner == Binding(Global("ClusterRole", "diki-operator"), RunnerAccount)

operatorClusterRoleBinding == Binding(Global("ClusterRole", "diki-operator"), OperatorAccount)

scannerClusterRole ==
    [refs  |-> {},
     rules |-> Rules({"configmaps", "nodes", "nodes/proxy", "namespaces", "pods",
                      "replicationcontrollers", "services", "daemonsets", "deployments",
                      "replicasets", "statefulsets", "jobs", "cronjobs",
                      "horizontalpodautoscalers", "storageclasses", "networkpolicies",
                      "roles", "clusterroles"}, Read)]

scannerClusterRoleBinding ==
    Binding(Global("ClusterRole", "scanner.diki.gardener.cloud"), RunnerAccount)

scannerRole ==
    [refs  |-> {},
     rules |-> Rules({"pods"}, {"create", "delete"}) \cup Rules({"pods/exec"}, {"create"})]

\* Mutant: the binding in kube-system names the ClusterRole of the same name.
scannerBoundToClusterRole ==
    Binding(Global("ClusterRole", "scanner.diki.gardener.cloud"), RunnerAccount)

scannerRoleBinding == Binding(System("Role", "scanner.diki.gardener.cloud"), RunnerAccount)

exporterClusterRole ==
    [refs  |-> {},
     rules |-> Rules({"compliancescans"}, {"get"})
               \cup Rules({"compliancescans/status"}, {"get", "patch"})
               \cup Rules({"configmaps"}, {"create"})]

exporterClusterRoleBinding ==
    Binding(Global("ClusterRole", "exporter.diki.gardener.cloud"), RunnerAccount)

roleLeaderElection ==
    [refs  |-> {},
     rules |-> Rules({"events"}, {"create", "update", "patch"})
               \cup Rules({"leases"}, {"get", "create", "update"})]

roleBindingLeaderElection ==
    Binding(System("Role", "diki-operator-leader-election"), OperatorAccount)

\* A URL without a port: https, hence 443.  failurePolicy is Fail.
Webhook(resource, path, v) ==
    [resource |-> resource,
     url      |-> [service |-> DikiOperatorName, ns |-> Namespace,
                   port |-> 443, path |-> path],
     bundle   |-> v.bundle]

validatingWebhookConfiguration(v) ==
    [refs     |-> {CRD("compliancescans"), CRD("scheduledcompliancescans")},
     webhooks |->
        {Webhook("compliancescans", "/webhooks/compliancescan", v),
         Webhook("scheduledcompliancescans", "/webhooks/scheduledcompliancescan/validate", v)}]

mutatingWebhookConfiguration(v) ==
    [refs     |-> {CRD("scheduledcompliancescans")},
     webhooks |->
        {Webhook("scheduledcompliancescans", "/webhooks/scheduledcompliancescan/mutate", v)}]

accessObjects ==
    {<<Global("ClusterRole", "diki-operator"), operatorClusterRole>>,
     <<Global("ClusterRoleBinding", "diki-operator"), operatorClusterRoleBinding>>,
     <<Global("ClusterRole", "scanner.diki.gardener.cloud"), scannerClusterRole>>,
     <<Global("ClusterRoleBinding", "diki-scanner"), scannerClusterRoleBinding>>,
     <<System("Role", "scanner.diki.gardener.cloud"), scannerRole>>,
     <<System("RoleBinding", "diki-scanner"), scannerRoleBinding>>,
     <<Global("ClusterRole", "exporter.diki.gardener.cloud"), exporterClusterRole>>,
     <<Global("ClusterRoleBinding", "diki-exporter"), exporterClusterRoleBinding>>,
     <<System("Role", "diki-operator-leader-election"), roleLeaderElection>>,
     <<System("RoleBinding", "diki-operator-leader-election"), roleBindingLeaderElection>>}

webhookObjects(v) ==
    {<<Global("ValidatingWebhookConfiguration", "gardener-extension-diki"),
       validatingWebhookConfiguration(v)>>,
     <<Global("MutatingWebhookConfiguration", "gardener-extension-diki"),
       mutatingWebhookConfiguration(v)>>}

crds ==
    {<<CRD("compliancescans"), NoRefs>>, <<CRD("reportoutputs"), NoRefs>>,
     <<CRD("scheduledcompliancescans"), NoRefs>>}

shootResources(v) == Function(accessObjects \cup webhookObjects(v) \cup crds)

=============================================================================
