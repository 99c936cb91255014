--------------------------------- MODULE Api ---------------------------------
(***************************************************************************)
(* What the endpoints that the two browser applications call read from the *)
(* database and what they write to it, down to the table: enough to tell   *)
(* which answer held in a browser a later write has made out of date.  One *)
(* record per service, one field per method; tables have their Prisma      *)
(* names.  "salesOrders" in the plural is which rows the table has, and    *)
(* "salesOrder" what a row says: creating an order changes what a list     *)
(* shows and not what is shown of another order.  Tables that only forms   *)
(* are filled from and no endpoint called by the browsers writes           *)
(* (currencies, roles and the like) are left out.                          *)
(***************************************************************************)

(* Every tenant mutation of sales, purchases and approvals is logged; the   *)
(* interceptor of the platform logs every request of an operator.           *)
Logged(tables) == tables \cup {"auditLog"}

SalesReads ==
    [listOrders |-> {"salesOrders", "salesOrder", "party"},
     getOrder |-> {"salesOrder", "salesOrderLine", "party", "item", "unitOfMeasure",
                   "lotCode"}]

SalesDraftWrites ==
    [createOrder |-> Logged({"salesOrders", "documentNumberSeries"}),
     addLine |-> Logged({"salesOrderLine", "salesOrder"}),
     removeLine |-> Logged({"salesOrderLine", "salesOrder"}),
     updateLine |-> Logged({"salesOrderLine", "salesOrder"})]

SalesReleaseWrites ==
    Logged({"salesOrder", "salesOrderLine", "itemLedgerEntry", "inventoryLot"})

PurchaseReads ==
    [listOrders |-> {"purchaseOrders", "purchaseOrder", "party"},
     getOrder |-> {"purchaseOrder", "purchaseOrderLine", "party", "item", "unitOfMeasure",
                   "purchaseReceipt", "purchaseReceiptLine"}]

PurchaseDraftWrites ==
    [createOrder |-> Logged({"purchaseOrders", "documentNumberSeries"}),
     addLine |-> Logged({"purchaseOrderLine", "purchaseOrder"}),
     removeLine |-> Logged({"purchaseOrderLine", "purchaseOrder"}),
     updateLine |-> Logged({"purchaseOrderLine", "purchaseOrder"})]

PurchaseReleaseWrites == Logged({"purchaseOrder"})

PurchaseReceiveWrites ==
    Logged({"purchaseReceipt", "purchaseReceiptLine", "inventoryLot", "inventoryValueEntry",
            "qualityInspection", "itemLedgerEntry", "purchaseOrderLine", "purchaseOrder"})

ApprovalReads == [inbox |-> {"approvalInstance", "approvalAction", "purchaseOrder", "party"}]

ApprovalWrites ==
    [submitPurchaseOrder |-> Logged({"approvalInstance", "approvalAction", "purchaseOrder"}),
     actOnPurchaseOrder |-> Logged({"approvalInstance", "approvalAction", "purchaseOrder"})]

PartyReads ==
    [listCompanies |-> {"company"}, listVendors |-> {"party"}, listCustomers |-> {"party"}]

InventoryReads ==
    [listItems |-> {"item"},
     balances |-> {"itemLedgerEntry", "item", "unitOfMeasure"},
     ledger |-> {"itemLedgerEntry", "item"}]

ItemDetailReads ==
    {"item", "unitOfMeasure", "itemLedgerEntry", "itemUomConversion", "supplierItemUom",
     "customerItemUom", "inventoryLot", "warehouse", "itemMedia", "inventoryValueEntry"}

UnitReads == {"unitOfMeasure"}

AvailableUomReads ==
    {"item", "unitOfMeasure", "itemUomConversion", "customerItemUom", "supplierItemUom"}

DashboardReads ==
    [operationsSummary |-> {"salesOrder", "purchaseOrder", "uomConversionException",
                            "inventoryLot"},
     marginByDimension |-> {"salesOrderLine", "salesOrder", "item", "party"},
     purchaseVariance |-> {"purchaseOrderLine", "purchaseOrder", "item", "party"}]

StockReportReads ==
    [fefoRisk |-> {"inventoryLot", "item", "warehouse"},
     shrinkage |-> {"inventoryLossEvent"},
     lotAging |-> {"inventoryLot"},
     receivingStatus |-> {"purchaseOrder", "qualityInspection"},
     uomExceptions |-> {"uomConversionException"}]

ProduceSummaryReads ==
    {"agriculturalItemProfile", "inventoryLot", "qualityInspection", "inventoryLossEvent",
     "deliveryRoute", "warehouse"}

ProduceMasters ==
    [createProfile |-> {"agriculturalItemProfile"}, listWarehouses |-> {"warehouse"}]

ProduceLots ==
    [listLots |-> {"inventoryLot", "item", "warehouse"},
     createLot |-> {"inventoryLot", "inventoryValueEntry", "itemLedgerEntry"},
     expirationRisk |-> {"inventoryLot", "item", "warehouse"}]

ProduceChecks ==
    [createInspection |-> {"qualityInspection"},
     createLoss |-> {"inventoryLossEvent", "inventoryLot", "inventoryValueEntry",
                     "itemLedgerEntry"},
     createRoute |-> {"deliveryRoute"}]

FiscalSetupReads ==
    {"fiscalJurisdiction", "fiscalRegimeSetup", "fiscalOperationType", "taxGroup",
     "taxDeterminationRule", "productFiscalProfile", "partyFiscalProfile", "fiscalDocument",
     "taxLedgerEntry"}

FiscalMasterReads ==
    {"itemFiscalTemplate", "serviceFiscalTemplate", "companyFiscalProfile", "branch",
     "branchFiscalProfile", "employee", "employeeTaxProfile", "partyFiscalProfile",
     "productFiscalProfile"}

FiscalRuleReads == {"taxDeterminationRule"}

(* The sections of the master data: what the list of each reads and what    *)
(* its creation writes.                                                     *)
FiscalTemplates ==
    [items |-> [reads |-> {"itemFiscalTemplate", "taxGroup"}, writes |-> {"itemFiscalTemplate"}],
     services |-> [reads |-> {"serviceFiscalTemplate", "taxGroup"},
                   writes |-> {"serviceFiscalTemplate"}]]

FiscalCompanies ==
    [companies |-> [reads |-> {"companyFiscalProfile", "company", "taxGroup"},
                    writes |-> {"companyFiscalProfile"}],
     branches |-> [reads |-> {"branch", "company", "fiscalJurisdiction"},
                   writes |-> {"branch"}]]

FiscalPeople ==
    [employees |-> [reads |-> {"employee", "company", "branch", "employeeTaxProfile"},
                    writes |-> {"employee"}],
     parties |-> [reads |-> {"partyFiscalProfile", "party", "taxGroup"},
                  writes |-> {"partyFiscalProfile"}]]

FinanceReads ==
    [listCoa |-> {"chartOfAccount"}, summary |-> {"chartOfAccount"}]

AuditReads == [listRecent |-> {"auditLog"}]

InstitutionReads == {"financialInstitution"}

BankingSummaryReads ==
    {"bankAccount", "bankBalance", "bankTransaction", "bankConnection", "reconciliationMatch"}

PixReads == {"bankTransaction", "pixTransactionDetail", "bankAccount"}

SuggestReads ==
    {"bankTransaction", "reconciliationRule", "reconciliationMatch", "salesOrder",
     "purchaseOrder"}

ConnectWrites == {"bankConnection", "bankConsent", "bankOAuthSession"}

PersistWrites == {"reconciliationMatch"}

ImportApi ==
    [getBatch |-> {"importBatch"},
     createBatch |-> {"importBatches"},
     commitBatch |-> {"importBatch"}]

AuthReads == {"user", "userRole", "rolePermission"}

TenantReads ==
    [list |-> {"tenants", "tenant", "tenantBranding", "tenantSubscription", "subscriptionPlan"},
     get |-> {"tenant", "tenantBranding", "tenantSubscription", "subscriptionPlan",
              "userTenant", "user"}]

TenantWrites ==
    [create |-> Logged({"tenants"}),
     update |-> Logged({"tenant", "tenantBranding"}),
     setStatus |-> Logged({"tenant"})]

PlanReads ==
    [listPlans |-> {"subscriptionPlans", "subscriptionPlan", "planFeature", "planQuota"},
     getPlan |-> {"subscriptionPlan", "planFeature", "planQuota"}]

PlanWrites ==
    [createPlan |-> Logged({"subscriptionPlans"}),
     changePlan |-> Logged({"subscriptionPlan"}),
     changeSubscription |-> Logged({"tenantSubscription"})]

PlatformUserReads ==
    [list |-> {"users", "user", "userTenant", "tenant", "userInvite"},
     get |-> {"user", "userTenant", "tenant", "userInvite", "loginHistory", "deviceRegistry"}]

PlatformUserWrites ==
    [update |-> Logged({"user"}),
     invite |-> Logged({"users", "user", "userTenant", "userInvite", "notification"}),
     secure |-> Logged({"user"}),
     revokeSessions |-> Logged({"refreshToken"}),
     assignTenant |-> Logged({"userTenant"})]

MetricsReads == {"tenant", "user", "telemetryEvent", "apiUsageRollup"}

HealthReads == {"queueHealthSnapshot"}

PlatformLogReads == {"auditLog"}

LgpdReads ==
    [consents |-> {"consentRecord"}, requests |-> {"dataSubjectRequest"}]

LegalReads == {"legalDocumentVersion"}

FlagWrites == Logged({"tenantFeatureOverride"})
=============================================================================
