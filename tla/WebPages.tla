------------------------------- MODULE WebPages -------------------------------
(***************************************************************************)
(* The pages of apps/web: which answers of the API each shows, under the   *)
(* key React Query keeps them, and what its buttons do.                    *)
(*                                                                         *)
(* A page has keys it asks for as soon as it is opened and keys it asks    *)
(* for later, once something is chosen or loaded (enabled).  The tabs,     *)
(* sections and filters of one component are pages of one "part".  An act  *)
(* is a mutation and its button.  The mutation: what the call writes, and  *)
(* its onSuccess, the keys it refreshes step by step, and whether it       *)
(* awaits each step.  The button: the page, or the part, that has it; what *)
(* must be loaded for it to be there; the name it shares with others that  *)
(* are greyed with it while one of them pends, or that it is never greyed  *)
(* (alone is FALSE); the page onSuccess opens, if not "open": the one that *)
(* is.  What else greys a button (statuses of the order, fields of the     *)
(* form) and what the API refuses is left open: any act offered may be     *)
(* refused.                                                                *)
(***************************************************************************)
EXTENDS Sequences, TLC, Api

Page(part, now, later) == [part |-> part, now |-> now, later |-> later]

Mutation(writes, refreshes) == [writes |-> writes, refreshes |-> refreshes, waits |-> TRUE]

Button(name, page, needs) ==
    [button |-> name, page |-> page, needs |-> needs, alone |-> TRUE, goes |-> "open"]

(* The acts of an application.                                              *)
Acting(mutations, buttons) == [n \in DOMAIN mutations |-> mutations[n] @@ buttons[n]]

-----------------------------------------------------------------------------
(* Sales.  Any change of the filters asks under another key of the family   *)
(* sales-orders.  The order shown is the same one throughout: creating one  *)
(* opens another order, and that page is elsewhere.                         *)
SalesListPages ==
    "sales" :> Page("sales", {"sales-orders", "parties-companies", "parties-customers"}, {}) @@
    "sales/filtered" :> Page("sales", {"parties-companies", "parties-customers"}, {})

SalesCreate ==
    "sales.create" :> Mutation(SalesDraftWrites.createOrder, <<{"sales-orders"}>>)

SalesCreateButton ==
    "sales.create" :>
        [Button("sales.create", "sales", {"parties-companies", "parties-customers"})
             EXCEPT !.goes = "elsewhere"]

SalesDetailPages ==
    "sales/order" :> Page("sales/order", {"inventory-items", "sales-order"},
                          {"item-available-uoms"})

SalesLineMutations ==
    "sales.addLine" :>
        Mutation(SalesDraftWrites.addLine, <<{"sales-order"}, {"sales-orders"}>>) @@
    "sales.removeLine" :>
        Mutation(SalesDraftWrites.removeLine, <<{"sales-order"}, {"sales-orders"}>>) @@
    "sales.updateLine" :>
        Mutation(SalesDraftWrites.updateLine, <<{"sales-order"}, {"sales-orders"}>>)

SalesLineForm ==
    "sales.addLine" :> Button("sales.addLine", "sales/order",
                              {"sales-order", "inventory-items", "item-available-uoms"})

SalesLineTable ==
    "sales.removeLine" :> Button("sales.removeLine", "sales/order", {"sales-order"}) @@
    "sales.updateLine" :> Button("sales.updateLine", "sales/order", {"sales-order"})

SalesRelease ==
    "sales.release" :>
        Mutation(SalesReleaseWrites, <<{"sales-order"}, {"sales-orders"}, {"inventory-ledger"},
                                       {"inventory-balances"}>>)

SalesReleaseButton ==
    "sales.release" :> Button("sales.release", "sales/order", {"sales-order"})

SalesSources ==
    "sales-orders" :> SalesReads.listOrders @@ "sales-order" :> SalesReads.getOrder

-----------------------------------------------------------------------------
(* Purchases and the inbox of approvals.                                    *)
PurchaseListPages ==
    "purchases" :> Page("purchases", {"purchase-orders", "parties-companies",
                                      "parties-vendors"}, {}) @@
    "purchases/filtered" :> Page("purchases", {"parties-companies", "parties-vendors"}, {})

PurchaseCreate ==
    "purchases.create" :> Mutation(PurchaseDraftWrites.createOrder, <<{"purchase-orders"}>>)

PurchaseCreateButton ==
    "purchases.create" :>
        [Button("purchases.create", "purchases", {"parties-companies", "parties-vendors"})
             EXCEPT !.goes = "elsewhere"]

PurchaseDetailPages ==
    "purchases/order" :> Page("purchases/order", {"inventory-items", "purchase-order"},
                              {"item-available-uoms"})

PurchaseLineMutations ==
    "purchases.addLine" :>
        Mutation(PurchaseDraftWrites.addLine, <<{"purchase-order"}, {"purchase-orders"}>>) @@
    "purchases.removeLine" :>
        Mutation(PurchaseDraftWrites.removeLine, <<{"purchase-order"}, {"purchase-orders"}>>) @@
    "purchases.updateLine" :>
        Mutation(PurchaseDraftWrites.updateLine, <<{"purchase-order"}, {"purchase-orders"}>>)

PurchaseLineForm ==
    "purchases.addLine" :> Button("purchases.addLine", "purchases/order",
                                  {"purchase-order", "inventory-items", "item-available-uoms"})

PurchaseLineTable ==
    "purchases.removeLine" :> Button("purchases.removeLine", "purchases/order",
                                     {"purchase-order"}) @@
    "purchases.updateLine" :> Button("purchases.updateLine", "purchases/order",
                                     {"purchase-order"})

PurchaseOrderMutations ==
    "purchases.submit" :> Mutation(ApprovalWrites.submitPurchaseOrder, <<{"purchase-order"}>>) @@
    "purchases.release" :>
        Mutation(PurchaseReleaseWrites, <<{"purchase-order"}, {"purchase-orders"}>>) @@
    "purchases.receive" :>
        Mutation(PurchaseReceiveWrites, <<{"purchase-order"}, {"purchase-orders"},
                                          {"inventory-ledger"}, {"inventory-balances"}>>)

PurchaseOrderButtons ==
    [n \in {"purchases.submit", "purchases.release", "purchases.receive"} |->
        Button(n, "purchases/order", {"purchase-order"})]

InboxPages == "approvals" :> Page("approvals", {"approvals-inbox"}, {})

InboxMutation ==
    "approvals.approve" :> Mutation(ApprovalWrites.actOnPurchaseOrder, <<{"approvals-inbox"}>>)

InboxButton ==
    "approvals.approve" :>
        [Button("approvals.approve", "approvals", {"approvals-inbox"}) EXCEPT !.alone = FALSE]

PurchaseSources ==
    "purchase-orders" :> PurchaseReads.listOrders @@
    "purchase-order" :> PurchaseReads.getOrder @@
    "approvals-inbox" :> ApprovalReads.inbox

-----------------------------------------------------------------------------
(* Stock and produce.  The five forms of the produce page share a button.   *)
StockPages ==
    "inventory" :> Page("inventory", {"inventory-balances", "inventory-ledger"}, {}) @@
    "inventory/item" :> Page("inventory/item", {"inventory-item"}, {})

StockSources ==
    "inventory-items" :> InventoryReads.listItems @@
    "inventory-balances" :> InventoryReads.balances @@
    "inventory-ledger" :> InventoryReads.ledger @@
    "inventory-item" :> ItemDetailReads @@
    "item-available-uoms" :> AvailableUomReads

ProducePages ==
    "produce" :> Page("produce", {"produce-summary", "produce-lots", "produce-expiration-risk",
                                  "produce-items", "produce-warehouses"}, {})

ProduceCreate(writes) ==
    Mutation(writes, <<{"produce-summary", "produce-lots", "produce-expiration-risk"}>>)

ProduceMutations ==
    "produce.profile" :> ProduceCreate(ProduceMasters.createProfile) @@
    "produce.lot" :> ProduceCreate(ProduceLots.createLot) @@
    "produce.quality" :> ProduceCreate(ProduceChecks.createInspection) @@
    "produce.loss" :> ProduceCreate(ProduceChecks.createLoss) @@
    "produce.route" :> ProduceCreate(ProduceChecks.createRoute)

ProduceButtons ==
    [n \in DOMAIN ProduceMutations |-> Button("produce.create", "produce", {})]

ProduceSources ==
    "produce-summary" :> ProduceSummaryReads @@
    "produce-lots" :> ProduceLots.listLots @@
    "produce-expiration-risk" :> ProduceLots.expirationRisk @@
    "produce-items" :> InventoryReads.listItems @@
    "produce-warehouses" :> ProduceMasters.listWarehouses

-----------------------------------------------------------------------------
(* Fiscal.  The sections of the set-up page share a button, and React Query *)
(* runs the onSuccess of the section that is open when the answer comes,    *)
(* see Rerendered of module WebClient.  The tax preview writes nothing and   *)
(* refreshes nothing, so it is no act.                                      *)
FiscalSections == FiscalTemplates @@ FiscalCompanies @@ FiscalPeople

FiscalPages ==
    "fiscal" :> Page("fiscal", {"fiscal-summary", "fiscal-rules", "parties-companies",
                                "parties-customers", "inventory-items"}, {}) @@
    [p \in {"fiscal/setup/" \o s : s \in DOMAIN FiscalSections} |->
        Page("fiscal/setup", {"fiscal-master-summary", "fiscal-setup-companies",
                              "fiscal-setup-parties"}
             \cup {"fiscal-master-rows/" \o s :
                   s \in {t \in DOMAIN FiscalSections : p = "fiscal/setup/" \o t}}, {})]

FiscalSectionOf(a) == CHOOSE s \in DOMAIN FiscalSections : a = "fiscal." \o s

FiscalMutations ==
    [a \in {"fiscal." \o s : s \in DOMAIN FiscalSections} |->
        Mutation(FiscalSections[FiscalSectionOf(a)].writes,
                 <<{"fiscal-master-summary", "fiscal-master-rows/" \o FiscalSectionOf(a)}>>)]

FiscalButtons ==
    [a \in DOMAIN FiscalMutations |->
        Button("fiscal.create", "fiscal/setup/" \o FiscalSectionOf(a), {})]

FiscalSources ==
    "fiscal-summary" :> FiscalSetupReads @@
    "fiscal-rules" :> FiscalRuleReads @@
    "fiscal-master-summary" :> FiscalMasterReads @@
    "fiscal-setup-companies" :> PartyReads.listCompanies @@
    "fiscal-setup-parties" :> PartyReads.listCustomers @@
    [k \in {"fiscal-master-rows/" \o s : s \in DOMAIN FiscalSections} |->
        FiscalSections[CHOOSE s \in DOMAIN FiscalSections :
                           k = "fiscal-master-rows/" \o s].reads]

-----------------------------------------------------------------------------
(* Pages that only show: the dashboards (most of whose reports wait for the *)
(* permissions in auth-me), units, exceptions, finance, the audit log, and  *)
(* the banking pages without a mutation.                                    *)
DashboardPages ==
    "dashboard" :> Page("dashboard", {"auth-me"},
        {"dashboard-ops", "dashboard-margin-product", "dashboard-purchase-variance",
         "dashboard-receiving", "dashboard-fefo-7", "dashboard-inventory-aging",
         "dashboard-shrinkage", "dashboard-uom-exceptions"}) @@
    "operations" :> Page("operations", {"dashboard-ops", "dashboard-fefo"}, {})

DashboardSources ==
    "dashboard-ops" :> DashboardReads.operationsSummary @@
    "dashboard-margin-product" :> DashboardReads.marginByDimension @@
    "dashboard-purchase-variance" :> DashboardReads.purchaseVariance @@
    "dashboard-receiving" :> StockReportReads.receivingStatus @@
    "dashboard-fefo-7" :> StockReportReads.fefoRisk @@
    "dashboard-fefo" :> StockReportReads.fefoRisk @@
    "dashboard-inventory-aging" :> StockReportReads.lotAging @@
    "dashboard-shrinkage" :> StockReportReads.shrinkage @@
    "dashboard-uom-exceptions" :> StockReportReads.uomExceptions

UnitPages ==
    "uom" :> Page("uom", {"uom-units"}, {}) @@
    "exceptions/uom" :> Page("exceptions/uom", {"uom-exceptions"}, {})

FinancePages ==
    "finance" :> Page("finance", {"finance-summary"}, {}) @@
    "finance/accounts" :> Page("finance/accounts", {"finance-coa"}, {})

AuditPages == "audit" :> Page("audit", {"audit-logs"}, {})

ReportSources ==
    "uom-units" :> UnitReads @@ "uom-exceptions" :> StockReportReads.uomExceptions @@
    "finance-summary" :> FinanceReads.summary @@ "finance-coa" :> FinanceReads.listCoa @@
    "audit-logs" :> AuditReads.listRecent

-----------------------------------------------------------------------------
(* Banking.  The company chosen is a tab: its suggestions have a key of     *)
(* their own, and the company of a mutation under way is the one chosen     *)
(* when its answer comes.  Starting a connection leaves the application.    *)
BankingPages ==
    "banking" :> Page("banking", {"companies"}, {"banking-summary"}) @@
    "banking/connect" :> Page("banking/connect", {"companies", "banking-institutions"}, {}) @@
    "banking/pix" :> Page("banking/pix", {"companies"}, {"banking-pix"})

ReconciliationPages ==
    "banking/reconciliation/one" :>
        Page("banking/reconciliation", {"companies"}, {"banking-recon/one"}) @@
    "banking/reconciliation/two" :>
        Page("banking/reconciliation", {"companies"}, {"banking-recon/two"})

(* Each company has matches of its own.                                     *)
OfCompany(tables, company) ==
    {IF t = "reconciliationMatch" THEN t \o "/" \o company ELSE t : t \in tables}

ConnectAct ==
    "banking.connect" :>
        (Mutation(ConnectWrites, <<>>)
         @@ [Button("banking.connect", "banking/connect", {"companies", "banking-institutions"})
                 EXCEPT !.goes = "bank"])

PersistMutations ==
    "banking.persist/one" :>
        Mutation(OfCompany(PersistWrites, "one"), <<{"banking-recon/one"}>>) @@
    "banking.persist/two" :>
        Mutation(OfCompany(PersistWrites, "two"), <<{"banking-recon/two"}>>)

PersistButtons ==
    "banking.persist/one" :>
        Button("banking.persist", "banking/reconciliation/one", {"companies"}) @@
    "banking.persist/two" :>
        Button("banking.persist", "banking/reconciliation/two", {"companies"})

BankingSources ==
    "banking-institutions" :> InstitutionReads @@
    "banking-summary" :> OfCompany(BankingSummaryReads, "one") @@
    "banking-pix" :> PixReads @@
    "banking-recon/one" :> OfCompany(SuggestReads, "one") @@
    "banking-recon/two" :> OfCompany(SuggestReads, "two")

-----------------------------------------------------------------------------
(* Imports: the batch of an upload is asked for again every three seconds,  *)
(* and when the answer to a commit comes.  The next upload shows another.   *)
ImportPages ==
    "imports" :> Page("imports", {}, {}) @@
    "imports/batch" :> Page("imports", {"import-batch"}, {})

ImportMutations ==
    "imports.upload" :> Mutation(ImportApi.createBatch, <<>>) @@
    "imports.commit" :> Mutation(ImportApi.commitBatch, <<{"import-batch"}>>)

ImportButtons ==
    "imports.upload" :>
        [Button("imports.upload", "imports", {}) EXCEPT !.alone = FALSE, !.goes = "imports"] @@
    "imports.commit" :>
        [Button("imports.commit", "imports/batch", {"import-batch"}) EXCEPT !.alone = FALSE]

ShellSources ==
    "auth-me" :> AuthReads @@
    "companies" :> PartyReads.listCompanies @@
    "parties-companies" :> PartyReads.listCompanies @@
    "parties-customers" :> PartyReads.listCustomers @@
    "parties-vendors" :> PartyReads.listVendors @@
    "import-batch" :> ImportApi.getBatch

-----------------------------------------------------------------------------
(* The routes of the application, all inside the shell that shows auth-me,  *)
(* but for the pages before the sign-in; "elsewhere" is any page that has   *)
(* nothing to do with the answer looked at.                                 *)
WebRoutes ==
    "login" :> Page("login", {}, {}) @@ "elsewhere" :> Page("elsewhere", {}, {}) @@
    SalesListPages @@ SalesDetailPages @@ PurchaseListPages @@ PurchaseDetailPages @@
    InboxPages @@ StockPages @@ ProducePages @@ FiscalPages @@ DashboardPages @@ UnitPages @@
    FinancePages @@ AuditPages @@ BankingPages @@ ReconciliationPages @@ ImportPages

InShell(p) == p # "login"

WebPagesAll ==
    [p \in DOMAIN WebRoutes |->
        IF InShell(p) THEN [WebRoutes[p] EXCEPT !.now = @ \cup {"auth-me"}] ELSE WebRoutes[p]]

WebMutations ==
    SalesCreate @@ SalesLineMutations @@ SalesRelease @@ PurchaseCreate @@
    PurchaseLineMutations @@ PurchaseOrderMutations @@ InboxMutation @@ ProduceMutations @@
    FiscalMutations @@ PersistMutations @@ ImportMutations

WebButtons ==
    SalesCreateButton @@ SalesLineForm @@ SalesLineTable @@ SalesReleaseButton @@
    PurchaseCreateButton @@ PurchaseLineForm @@ PurchaseLineTable @@ PurchaseOrderButtons @@
    InboxButton @@ ProduceButtons @@ FiscalButtons @@ PersistButtons @@ ImportButtons

WebActs == Acting(WebMutations, WebButtons) @@ ConnectAct

WebSources ==
    SalesSources @@ PurchaseSources @@ StockSources @@ ProduceSources @@ FiscalSources @@
    DashboardSources @@ ReportSources @@ BankingSources @@ ShellSources
=============================================================================
