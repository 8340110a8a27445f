SPECIFICATION Spec
CONSTANTS
    e1 = e1  e2 = e2  e3 = e3
    Evaluations = {e1, e2, e3}
    ReportKinds = {{"initial", "final"}}
    MailAdmins = TRUE
    MaxAtOnce = 2
    MaxFailures = 2
SYMMETRY Symmetry
INVARIANTS SomeActive NewestActivated AloneRepairs
CHECK_DEADLOCK FALSE
