SPECIFICATION Spec
CONSTANTS
    c1 = c1
    c2 = c2
    c3 = c3
    Null = Null
    Unreadable = Unreadable
    Zero = Zero
    Charges = {c1, c2, c3}
    Amounts = {1, 2}
    Kinds = {"invoices", "payments", "steps"}
    MaxLines = 3
    Slots = 4
    NoCharge = NoCharge
    Steps = {1, 2, 3}
    New = New
CHECK_DEADLOCK FALSE
SYMMETRY Interchangeable
INVARIANTS OutcomesExact MissingIsAdded InvoicesExact  DeletionsExact
