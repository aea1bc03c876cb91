SPECIFICATION Spec
CONSTANT MaxItems = 2
PROPERTY PragmasObeyed
CHECK_DEADLOCK FALSE
