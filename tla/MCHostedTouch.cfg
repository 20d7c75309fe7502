CONSTANT MaxContacts = 4
SPECIFICATION Spec
PROPERTY GesturesInOrder
CHECK_DEADLOCK FALSE
