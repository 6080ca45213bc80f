--------------------------- MODULE HeuristicsServices ---------------------------
(***************************************************************************)
(* The checks of heuristics_db.go, heuristics_kafka.go,                    *)
(* heuristics_mongo.go, heuristics_mq.go, heuristics_es.go,                *)
(* heuristics_web.go, heuristics_envoy.go, heuristics_traefik.go,          *)
(* heuristics_prometheus.go, heuristics_alertmanager.go,                   *)
(* heuristics_grafana.go, heuristics_vault.go and heuristics_ha.go: the    *)
(* services a host runs; and of heuristics_cloud.go, heuristics_aws.go,    *)
(* heuristics_azure.go, heuristics_gcp.go and heuristics_oci.go: what a    *)
(* cloud instance can see of its provider.  limit is what a service        *)
(* allows, 0 where it was not read or there is none.                       *)
(***************************************************************************)
EXTENDS Insights

\* used of limit has come to at least percent.
Reaches(used, limit, percent) == limit > 0 /\ 100 * used >= percent * limit

\* Connections of a database, critical at 95 percent.
Saturation(check, used, limit) ==
  IF Reaches(used, limit, 95) THEN {Found("CRIT", check)}
  ELSE When(Reaches(used, limit, 80), Found("WARN", check))

\* The one who answers may be another process; what it says is scored all the same.
Identity(service, check) == When("identityUnverified" \in service.flags, Unread(check))

-------------------------------------------------------------------------------
(* Databases *)

\* lag: seconds.  A replica that has replayed all there was is not behind.
CheckPostgres(pg) ==
  IF "refusing" \in pg.flags THEN {Found("CRIT", "Postgres")}
  ELSE IF "metricsUnread" \in pg.flags THEN {Unread("Postgres")}
  ELSE Saturation("Postgres", pg.used, pg.limit)
       \cup When(pg.limit <= 0, Unread("Postgres"))
       \cup When(\/ pg.idle >= 5
                 \/ "replica" \in pg.flags /\ "caughtUp" \notin pg.flags /\ pg.lag > 300,
                 Found("WARN", "Postgres"))

CheckMySQL(my) ==
  IF "metricsUnread" \in my.flags THEN {Unread("MySQL")}
  ELSE (IF "connectionsUnread" \notin my.flags /\ my.limit > 0
        THEN Saturation("MySQL", my.used, my.limit) ELSE {Unread("MySQL")})
       \cup (IF "replica" \notin my.flags THEN {}
             ELSE IF "stopped" \in my.flags THEN {Found("CRIT", "MySQL")}
             ELSE When(my.lag > 300, Found("WARN", "MySQL")))

\* memory, memoryLimit: the limit may be none.
RedisMemory(r) ==
  IF Reaches(r.memory, r.memoryLimit, 95)
  THEN {Found(IF "noEviction" \in r.flags THEN "CRIT" ELSE "WARN", "Redis")}
  ELSE When(Reaches(r.memory, r.memoryLimit, 85), Found("WARN", "Redis"))

CheckRedis(r) ==
  IF "metricsUnread" \in r.flags THEN {Unread("Redis")}
  ELSE RedisMemory(r)
       \cup (IF Reaches(r.used, r.limit, 90) THEN {Found("WARN", "Redis")}
             ELSE When("limitUnread" \in r.flags, Unread("Redis")))
       \cup When({"replica", "stopped"} \subseteq r.flags, Found("CRIT", "Redis"))
       \cup When("saveFailed" \in r.flags, Found("WARN", "Redis"))

\* A limit that was not read is told as a finding, not as unverified.
CheckMemcached(m) ==
  IF "metricsUnread" \in m.flags THEN {Unread("Memcached")}
  ELSE When("evicting" \in m.flags \/ Reaches(m.used, m.limit, 90), Found("WARN", "Memcached"))
       \cup When("maxUnread" \in m.flags /\ ~Reaches(m.used, m.limit, 90),
                 Found("INFO", "Memcached"))

CheckMongoDB(m) ==
  IF "metricsUnread" \in m.flags THEN {Unread("MongoDB")}
  ELSE (IF "replicaUnread" \in m.flags THEN {Unread("MongoDB")}
        ELSE IF "noPrimary" \in m.flags THEN {Found("CRIT", "MongoDB")}
        ELSE When("downMembers" \in m.flags, Found("WARN", "MongoDB")))
       \cup When(Reaches(m.used, m.limit, 90), Found("WARN", "MongoDB"))

-------------------------------------------------------------------------------
(* Queues and search *)

CheckKafka(k) ==
  IF "metricsUnread" \in k.flags THEN {Unread("Kafka")}
  ELSE When("offline" \in k.flags, Found("CRIT", "Kafka"))
       \cup When("replicationUnread" \in k.flags, Unread("Kafka"))
       \cup When("underReplicated" \in k.flags, Found("WARN", "Kafka"))

CheckRabbitMQ(r) ==
  IF "metricsUnread" \in r.flags THEN {Unread("RabbitMQ")}
  ELSE IF "alarmsUnread" \in r.flags THEN {UnreadAt("WARN", "RabbitMQ")}
  ELSE When("alarm" \in r.flags, Found("CRIT", "RabbitMQ"))

CheckElasticsearch(e) ==
  Identity(e, "Elasticsearch")
  \cup (IF "metricsUnread" \in e.flags THEN {Unread("Elasticsearch")}
        ELSE ByState("Elasticsearch", e.state, {"red"}, {"yellow"}, {}, {"green"}))

-------------------------------------------------------------------------------
(* Web servers and proxies *)

\* webConfigVerdict; config: of the file on disk.
WebConfig(check, config) ==
  IF config = "invalid" THEN {Found("CRIT", check)}
  ELSE When(config = "untested", Unread(check))

CheckNginx(n) == WebConfig("Nginx", n.state)
CheckApache(a) == WebConfig("Apache", a.state)
CheckHAProxy(h) == WebConfig("HAProxy", h.state)

\* No clusters, and more healthy hosts than hosts, are an answer of something else
\* or of another version.
CheckEnvoy(e) ==
  Identity(e, "Envoy")
  \cup (IF "metricsUnread" \in e.flags \/ e.clusters = 0 \/ e.healthy > e.hosts
        THEN {Unread("Envoy")}
        ELSE IF "clusterDown" \in e.flags THEN {Found("CRIT", "Envoy")}
        ELSE When(e.healthy < e.hosts, Found("WARN", "Envoy")))

CheckTraefik(t) ==
  IF "metricsUnread" \in t.flags THEN {Unread("Traefik")}
  ELSE When(t.flags \cap {"routerErrors", "serviceErrors"} # {}, Found("WARN", "Traefik"))

-------------------------------------------------------------------------------
(* Monitoring, secrets, clusters *)

\* targets: those scraped, and how many of them are down.
CheckPrometheus(p) ==
  IF "metricsUnread" \in p.flags THEN {Unread("Prometheus")}
  ELSE When("reloadFailed" \in p.flags, Found("WARN", "Prometheus"))
       \cup (IF p.targets > 0 /\ p.down = p.targets THEN {Found("CRIT", "Prometheus")}
             ELSE When(p.down > 0, Found("WARN", "Prometheus")))

CheckAlertmanager(a) ==
  Identity(a, "Alertmanager")
  \cup (IF a.flags \cap {"metricsUnread", "reloadUnread"} # {} THEN {Unread("Alertmanager")}
        ELSE When("reloadFailed" \in a.flags, Found("WARN", "Alertmanager")))

CheckGrafana(g) ==
  Identity(g, "Grafana")
  \cup (IF "metricsUnread" \in g.flags THEN {Unread("Grafana")}
        ELSE When("databaseDown" \in g.flags, Found("CRIT", "Grafana")))

\* answer: what the status endpoint gave.  A development server has no TLS.
CheckVault(v) ==
  IF v.answer \in {"none", "foreign"} THEN {Found("WARN", "Vault")}
  ELSE IF "metricsUnread" \in v.flags THEN {Unread("Vault")}
  ELSE Identity(v, "Vault")
       \cup When(v.flags \cap {"devMode", "sealed"} # {}, Found("CRIT", "Vault"))
       \cup When(\/ "initialized" \notin v.flags
                 \/ v.flags \cap {"devMode", "tls"} = {}, Found("WARN", "Vault"))

\* fencing: "off", "noDevice" or "on".
CheckHA(d) ==
  IF "stopped" \in d.flags THEN {Found("WARN", "HACluster")}
  ELSE IF "metricsUnread" \in d.flags THEN {Unread("HACluster")}
  ELSE When(d.flags \cap {"noQuorum", "offlineNodes", "failedResources"} # {},
            Found("CRIT", "HACluster"))
       \cup When("stoppedResources" \in d.flags \/ d.fencing # "on", Found("WARN", "HACluster"))
       \cup When("ambiguousResources" \in d.flags, Unread("HACluster"))

\* A guest without anything to report is recognised as such.
RecognisedIn(found, cloud) == IF found = {} THEN {Found("INFO", cloud)} ELSE found

-------------------------------------------------------------------------------
(* Any cloud *)

CheckCloudMeta(c) ==
  IF "metadataUnread" \in c.flags THEN {Unread("CloudMeta")}
  ELSE (IF "spotTermination" \in c.flags THEN {Found("CRIT", "CloudMeta")}
        ELSE When("spotUnchecked" \in c.flags, Unread("CloudMeta")))
       \cup When("maintenance" \in c.flags, Found("WARN", "CloudMeta"))

\* status: of cloud-init; errors count whatever it is.
CheckCloudInit(c) ==
  IF "initUnverified" \in c.flags THEN {Unread("CloudInit")}
  ELSE IF c.status = "error" \/ "errors" \in c.flags THEN {Found("CRIT", "CloudInit")}
  ELSE IF "degraded" \in c.flags THEN {Found("WARN", "CloudInit")}
  ELSE When(c.status = "running", Found("INFO", "CloudInit"))

-------------------------------------------------------------------------------
(* AWS *)

\* ebsThrottleInsight, and the same for the allowances of a network interface: a
\* limit hit while dsd looked, or at some time since boot.
Exceeded(limit) ==
  IF limit = "now" THEN {Found("WARN", "AWS")} ELSE When(limit = "before", Found("INFO", "AWS"))

AWSStorage(a) ==
  When(a.flags \cap {"ebsNeedsRoot", "ebsUnread", "ebsDeltaUnread"} # {}, Unread("AWS"))
  \cup UNION {Exceeded(limit) : limit \in a.ebs}

AWSPosture(a) ==
  (IF "imdsUnchecked" \in a.flags THEN {Unread("AWS")}
   ELSE When("imdsV1" \in a.flags, Found("WARN", "AWS")))
  \cup (IF "rebalanceUnchecked" \in a.flags THEN {Unread("AWS")}
        ELSE When("rebalance" \in a.flags, Found("WARN", "AWS")))
  \cup When("otherTimeSource" \in a.flags, Found("INFO", "AWS"))
  \cup When("agentStopped" \in a.flags, Found("WARN", "AWS"))

\* nics, ebs: what became of their limits.
CheckAWS(a) ==
  RecognisedIn(
    (UNION {Exceeded(limit) : limit \in a.nics}) \cup AWSStorage(a) \cup AWSPosture(a), "AWS")

-------------------------------------------------------------------------------
(* Azure, Google, Oracle *)

\* functions: state of each accelerated network function; disks: host caching of the
\* data disks; timeout: of NVMe requests in seconds, 0 where unknown.
CheckAzure(a) ==
  RecognisedIn(
    When(\/ a.functions \cap {"unbonded", "down"} # {}
         \/ a.flags \cap {"agentStopped", "dataOnTempDisk"} # {}, Found("WARN", "Azure"))
    \cup When("otherTimeSource" \in a.flags \/ a.timeout \in 1..59, Found("INFO", "Azure"))
    \cup (IF "disksUnread" \in a.flags THEN {Unread("Azure")}
          ELSE When("ReadWrite" \in a.disks, Found("WARN", "Azure"))),
    "Azure")

GCPMaintenance(g) ==
  IF "maintenanceUnchecked" \in g.flags THEN {Unread("GCP")}
  ELSE When(\/ "maintenance" \in g.flags
            \/ "terminates" \in g.flags /\ "preemptible" \notin g.flags, Found("WARN", "GCP"))

CheckGCP(g) ==
  RecognisedIn(
    When("agentStopped" \in g.flags, Found("WARN", "GCP"))
    \cup GCPMaintenance(g)
    \cup When("otherTimeSource" \in g.flags, Found("INFO", "GCP")),
    "GCP")

\* checked: which of the four parts were.  Only where none was is that said.
OCIParts == {"imds", "agent", "time", "vnic"}

OCIPosture(o) ==
  When("imds" \in o.checked /\ "imdsV1" \in o.flags, Found("WARN", "OCI"))
  \cup (IF "agent" \notin o.checked THEN {}
        ELSE When("agentStopped" \in o.flags, Found("WARN", "OCI"))
             \cup When("updaterStopped" \in o.flags, Found("INFO", "OCI")))
  \cup (IF "time" \notin o.checked THEN {}
        ELSE IF "otherTimeSource" \in o.flags THEN {Found("INFO", "OCI")}
        ELSE When("notSynced" \in o.flags, Found("WARN", "OCI")))
  \cup When("ringDrops" \in o.flags, Found("WARN", "OCI"))

CheckOCI(o) ==
  IF OCIPosture(o) = {} /\ o.checked \cap OCIParts = {} THEN {Unread("OCI")}
  ELSE RecognisedIn(OCIPosture(o), "OCI")

===============================================================================
