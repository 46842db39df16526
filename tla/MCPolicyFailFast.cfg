SPECIFICATION Spec
CONSTANTS
    Null = Null
    Processes = {p, q}
    Handlers = {f, g}
    Hints <- MCHints
    ProjectLayers <- MCProjectLayers
    Defaults <- MCDefaults
    Budgets <- MCBudgets
    Asked = {1, 3}
SYMMETRY Symmetry
INVARIANT NonRetryableIsDead
