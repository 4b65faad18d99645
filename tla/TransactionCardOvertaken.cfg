SPECIFICATION Spec
CONSTANT MaxTaps = 2
PROPERTIES ConfirmsTheShownTransaction
CHECK_DEADLOCK FALSE
