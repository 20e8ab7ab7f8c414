------------------------------- MODULE MCPlans -------------------------------
\* Each environment lets one set of jobs and faults meet the checkouts.
EXTENDS PlanCheckout

MCEnvironments == {
    {"database", "crash", "provider", "reconciliation"},
    {"crash", "database", "expiry", "page"},
    {"orders", "expiry"},
    {"database", "crash", "scheduler"},
    {"renewals", "crash"} }

SchedulerOnly == {{"scheduler"}}
ScanOnly == {{"reconciliation"}}
=============================================================================
