---------------------------- MODULE AssetScoring ----------------------------
(***************************************************************************)
(* The arithmetic of the risk score (modules/riskscore) and of the         *)
(* exposure score (modules/exposure), with the factors both are made of.   *)
(*                                                                         *)
(* The code computes in float64. Here a score is an exact integer number   *)
(* of units: RiskUnit of them make one point of risk, and ExposureUnit one *)
(* point of exposure, so every weight of the code is a whole number and    *)
(* only float64's own rounding is left out.                                *)
(***************************************************************************)
EXTENDS Integers, FiniteSets, FiniteSetsExt

Severities == {"critical", "high", "medium", "low", "info"}
RequiredHeaders == {"hsts", "csp", "x-frame-options", "x-content-type-options"}
SensitiveTags == {"pci", "crown-jewel"}
InternalTags == {"internal", "private"}

Capped(x, hi) == IF x > hi THEN hi ELSE x
CountOf(sev, finds) == Cardinality({f \in finds : f.sev = sev})

-----------------------------------------------------------------------------
RiskUnit == 1600
MaxRisk == 100 * RiskUnit

\* countMissingHeaders: a page whose headers were never stored misses none.
MissingHeaders(page) ==
    IF ~page.stored THEN 0 ELSE Cardinality(RequiredHeaders \ page.headers)

\* buildFactors: what hangs off the services and findings of one asset. A
\* service without a state counts as open; an expired or self-signed
\* certificate is an issue and is not counted again as expiring.
RiskFactors(svcs, certs, pages, finds) ==
    LET ids == {s.id : s \in svcs}
        open == {s \in svcs : s.state \in {"open", ""}}
        mine(things) == {t \in things : t.service \in ids}
    IN [services |-> Cardinality(open),
        ports    |-> Cardinality({s \in open : s.riskyPort}),
        bad      |-> Cardinality({c \in mine(certs) : c.bad}),
        expiring |-> Cardinality({c \in mine(certs) : ~c.bad /\ c.expiring}),
        headers  |-> MapThenSumSet(MissingHeaders, mine(pages)),
        critical |-> CountOf("critical", finds),
        high     |-> CountOf("high", finds),
        medium   |-> CountOf("medium", finds),
        low      |-> CountOf("low", finds)]

NoFactors == RiskFactors({}, {}, {}, {})

\* scoreFromFactors: points in tenths, then three multipliers in quarters,
\* tenths and quarters.
RiskScore(f, env, monitored, tags) ==
    LET tenths == 100 * f.critical + 40 * f.high + 15 * f.medium + 5 * f.low
                + 80 * f.bad + 50 * f.expiring + 60 * f.ports + 20 * f.headers
                + (IF f.services > 20 THEN 2 * (f.services - 20) ELSE 0)
        sensitive == tags \cap SensitiveTags # {}
        internet == env = "production" /\ monitored
        score == Capped(tenths * (IF sensitive THEN 5 ELSE 4)
                               * (IF internet THEN 11 ELSE 10)
                               * (IF tags \cap InternalTags # {} THEN 3 ELSE 4), MaxRisk)
    IN [score |-> score, sensitive |-> sensitive, internet |-> internet, factors |-> f]

\* tierFromScore
Tier(score) ==
    CASE score >= 75 * RiskUnit -> "critical"
      [] score >= 50 * RiskUnit /\ score < 75 * RiskUnit -> "high"
      [] score >= 25 * RiskUnit /\ score < 50 * RiskUnit -> "medium"
      [] OTHER -> "low"

-----------------------------------------------------------------------------
ExposureUnit == 100 * RiskUnit

BoolScore(b) == IF b THEN 100 ELSE 0

\* attackPathFactorScore
AttackPathScore(count) ==
    CASE count <= 0 -> 0 [] count = 1 -> 50 [] count = 2 -> 75 [] OTHER -> 100

\* findingsFactorScore
FindingsScore(critical, high, medium) ==
    Capped(25 * critical + 10 * high + 3 * medium, 100)

\* certificateFactorScore
CertificateScore(bad, expiring) == Capped(30 * bad + 15 * expiring, 100)

\* technologyFactorScore: the names that match a risky keyword count twice.
TechnologyScore(techs) ==
    Capped(8 * Cardinality(techs) + 30 * Cardinality({t \in techs : t.risky}), 100)

\* criticalityFactorScore
CriticalityScore(sensitive, ctx) ==
    CASE sensitive -> 100
      [] ~sensitive /\ ctx.env = "production" -> IF ctx.unit THEN 60 ELSE 40
      [] OTHER -> 15

\* relationshipFactorScore
RelationshipScore(count, nearCritical) ==
    IF nearCritical THEN 100 ELSE Capped(10 * count, 100)

\* businessImpactFactorScore
BusinessScore(sensitive, ctx) ==
    CASE sensitive -> 100
      [] ~sensitive /\ ctx.unit /\ ctx.owner -> 50
      [] ~sensitive /\ (ctx.unit # ctx.owner) -> 25
      [] OTHER -> 0

\* computeExposure: the weighted sum of scoreHost, scoreSubdomain and
\* scoreDomain. x holds what those read of one asset.
Exposure(x) ==
    20 * x.risk
      + RiskUnit * ( 15 * BoolScore(x.internet)
                   + 15 * AttackPathScore(x.paths)
                   + 15 * FindingsScore(x.critical, x.high, x.medium)
                   + 10 * CriticalityScore(x.sensitive, x.ctx)
                   + 5 * CertificateScore(x.bad, x.expiring)
                   + 5 * TechnologyScore(x.techs)
                   + 5 * BoolScore(x.cloud)
                   + 5 * RelationshipScore(x.rels, x.nearCritical)
                   + 5 * BusinessScore(x.sensitive, x.ctx))

\* levelFromScore
Level(score) ==
    CASE score >= 95 * ExposureUnit -> "critical"
      [] score >= 75 * ExposureUnit /\ score < 95 * ExposureUnit -> "high"
      [] score >= 50 * ExposureUnit /\ score < 75 * ExposureUnit -> "medium"
      [] score >= 25 * ExposureUnit /\ score < 50 * ExposureUnit -> "low"
      [] OTHER -> "informational"

-----------------------------------------------------------------------------
\* exposureScore of the executive snapshot in hundredths: risk is the hosts'
\* average, compliance the SLA percentage. The SLA counts breached findings
\* whatever their status but divides by the unresolved ones, so compliance
\* may be negative and only the last clamp keeps the score a percentage.
MaxOrg == 100 * 100
Percent(part, whole) == (100 * part) \div whole

Compliance(tracked, breached) ==
    IF tracked = 0 THEN 100 ELSE 100 - Percent(breached, tracked)

OrgExposure(kpi) ==
    LET path == IF kpi.assets = 0 THEN 0
                ELSE Capped(Percent(kpi.criticalPaths, kpi.assets), 100)
        facing == IF kpi.hosts = 0 THEN 0 ELSE Percent(kpi.internet, kpi.hosts)
    IN Capped(40 * kpi.avgRisk + 25 * path
              + 20 * (100 - Compliance(kpi.slaTracked, kpi.slaBreached))
              + 15 * facing, MaxOrg)
=============================================================================
