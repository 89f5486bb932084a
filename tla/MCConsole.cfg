CONSTANTS
    Writer = {w1, w2}
    BUFFER_SIZE = 3
    Lengths = {1, 2}
    MaxChars = 5
    NULL = null
    Key = {"lshift", "rshift", "caps", "a", "keypad_enter", "f7"}
    KBD_BUF_SIZE = 3
    MaxWire = 3
    MaxHeld = 2
SPECIFICATION Spec
  
PROPERTIES CharLeaves
CHECK_DEADLOCK FALSE
