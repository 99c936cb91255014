------------------------------ MODULE AdminPages ------------------------------
(***************************************************************************)
(* The pages of apps/admin, in the form of module WebPages.  Its mutations *)
(* do not await what they refresh ("void qc.invalidateQueries"): the       *)
(* button is there again, and the next page opens, as soon as the answer   *)
(* comes, so the refreshes are one step and waits is FALSE.  Refreshing    *)
(* platform-tenants refreshes the list and every detail, whose keys it is  *)
(* a prefix of; the same goes for users and plans.                         *)
(***************************************************************************)
EXTENDS WebPages

Tenants == {"platform-tenants/list", "platform-tenants/one"}

Users == {"platform-users/list", "platform-users/one"}

Plans == {"platform-plans/list", "platform-plans/one"}

AdminMutation(writes, refreshes) ==
    [writes |-> writes, refreshes |-> <<refreshes>>, waits |-> FALSE]

-----------------------------------------------------------------------------
(* Tenants and their subscriptions.  The five buttons of the life cycle     *)
(* share a dialog that is greyed while one of them pends; the buttons of    *)
(* the subscription are never greyed.                                       *)
TenantListPages ==
    "tenants" :> Page("tenants", {"platform-tenants/list"}, {}) @@
    "tenants/new" :> Page("tenants/new", {}, {})

TenantPages ==
    "tenants/one" :> Page("tenants/one", {"platform-tenants/one", "platform-plans/list"}, {}) @@
    "tenants/one/edit" :> Page("tenants/one/edit", {"platform-tenants/one"}, {})

TenantMutations ==
    "tenant.create" :> AdminMutation(TenantWrites.create, Tenants) @@
    "tenant.update" :> AdminMutation(TenantWrites.update, Tenants) @@
    "tenant.setStatus" :> AdminMutation(TenantWrites.setStatus, Tenants) @@
    "tenant.softDelete" :> AdminMutation(TenantWrites.setStatus, Tenants)

TenantCreateForm ==
    "tenant.create" :>
        [Button("tenant.create", "tenants/new", {}) EXCEPT !.goes = "elsewhere"]

TenantEditForm ==
    "tenant.update" :>
        [Button("tenant.update", "tenants/one/edit", {"platform-tenants/one"})
             EXCEPT !.goes = "tenants/one"]

TenantLifecycleButtons ==
    "tenant.setStatus" :> Button("tenant.lifecycle", "tenants/one", {"platform-tenants/one"}) @@
    "tenant.softDelete" :>
        [Button("tenant.lifecycle", "tenants/one", {"platform-tenants/one"})
             EXCEPT !.goes = "tenants"]

SubscriptionMutations ==
    [n \in {"subscription.assign", "subscription.change"} |->
        AdminMutation(PlanWrites.changeSubscription, Tenants)]

SubscriptionButtons ==
    "subscription.assign" :>
        [Button("subscription.assign", "tenants/one",
                {"platform-tenants/one", "platform-plans/list"}) EXCEPT !.alone = FALSE] @@
    "subscription.change" :>
        [Button("subscription.change", "tenants/one", {"platform-tenants/one"})
             EXCEPT !.alone = FALSE]

-----------------------------------------------------------------------------
(* Plans.                                                                   *)
PlanPages ==
    "plans" :> Page("plans", {"platform-plans/list"}, {}) @@
    "plans/new" :> Page("plans/new", {}, {}) @@
    "plans/one" :> Page("plans/one", {"platform-plans/one"}, {})

PlanMutations ==
    "plan.create" :> AdminMutation(PlanWrites.createPlan, Plans) @@
    "plan.change" :> AdminMutation(PlanWrites.changePlan, Plans)

PlanCreateForm ==
    "plan.create" :> [Button("plan.create", "plans/new", {}) EXCEPT !.goes = "elsewhere"]

PlanButtons ==
    "plan.change" :>
        [Button("plan.change", "plans/one", {"platform-plans/one"}) EXCEPT !.alone = FALSE]

-----------------------------------------------------------------------------
(* Users.  What the security buttons do is refreshed in the detail only.    *)
UserListPages ==
    "users" :> Page("users", {"platform-users/list", "platform-tenants/list"}, {})

UserPages ==
    "users/invite" :> Page("users/invite", {"platform-tenants/list"}, {}) @@
    "users/one" :> Page("users/one", {"platform-users/one", "platform-tenants/list"}, {}) @@
    "users/one/edit" :> Page("users/one/edit", {"platform-users/one"}, {})

UserMutations ==
    "user.invite" :> AdminMutation(PlatformUserWrites.invite, Users) @@
    "user.update" :> AdminMutation(PlatformUserWrites.update, Users) @@
    "user.assignTenant" :> AdminMutation(PlatformUserWrites.assignTenant, Users) @@
    "user.secure" :> AdminMutation(PlatformUserWrites.secure, {"platform-users/one"}) @@
    "user.revokeSessions" :>
        AdminMutation(PlatformUserWrites.revokeSessions, {"platform-users/one"})

UserInviteForm ==
    "user.invite" :> Button("user.invite", "users/invite", {"platform-tenants/list"})

UserEditForm ==
    "user.update" :>
        [Button("user.update", "users/one/edit", {"platform-users/one"})
             EXCEPT !.goes = "users/one"]

UserButtons ==
    "user.assignTenant" :>
        [Button("user.assignTenant", "users/one",
                {"platform-users/one", "platform-tenants/list"}) EXCEPT !.alone = FALSE] @@
    [n \in {"user.secure", "user.revokeSessions"} |->
        [Button("user.secure", "users/one", {"platform-users/one"}) EXCEPT !.alone = FALSE]]

-----------------------------------------------------------------------------
(* Pages that only show, and the page of the feature flags, which shows     *)
(* nothing and saves an override.                                           *)
MetricsPages ==
    "dashboard" :> Page("dashboard", {"platform-metrics"}, {}) @@
    "telemetry" :> Page("telemetry", {"telemetry-metrics", "observability-health"}, {})

LgpdPages == "lgpd" :> Page("lgpd", {"lgpd-consents", "lgpd-requests"}, {})

LegalPages == "legal" :> Page("legal", {"legal-docs"}, {})

PlatformAuditPages == "audit" :> Page("audit", {"platform-audit"}, {})

FeatureAct ==
    "feature.save" :>
        (AdminMutation(FlagWrites, {})
         @@ [Button("feature.save", "features", {}) EXCEPT !.alone = FALSE])

AdminSources ==
    "platform-tenants/list" :> TenantReads.list @@ "platform-tenants/one" :> TenantReads.get @@
    "platform-plans/list" :> PlanReads.listPlans @@ "platform-plans/one" :> PlanReads.getPlan @@
    "platform-users/list" :> PlatformUserReads.list @@
    "platform-users/one" :> PlatformUserReads.get @@
    "platform-metrics" :> MetricsReads @@
    "telemetry-metrics" :> MetricsReads @@
    "observability-health" :> HealthReads @@
    "lgpd-consents" :> LgpdReads.consents @@
    "lgpd-requests" :> LgpdReads.requests @@
    "legal-docs" :> LegalReads @@
    "platform-audit" :> PlatformLogReads

AdminPagesAll ==
    "login" :> Page("login", {}, {}) @@ "elsewhere" :> Page("elsewhere", {}, {}) @@
    "features" :> Page("features", {}, {}) @@ TenantListPages @@ TenantPages @@ PlanPages @@
    UserListPages @@ UserPages @@ MetricsPages @@ LgpdPages @@ LegalPages @@ PlatformAuditPages

AdminMutations ==
    TenantMutations @@ SubscriptionMutations @@ PlanMutations @@ UserMutations

AdminButtons ==
    TenantCreateForm @@ TenantEditForm @@ TenantLifecycleButtons @@ SubscriptionButtons @@
    PlanCreateForm @@ PlanButtons @@ UserInviteForm @@ UserEditForm @@ UserButtons

AdminActs == Acting(AdminMutations, AdminButtons) @@ FeatureAct
=============================================================================
