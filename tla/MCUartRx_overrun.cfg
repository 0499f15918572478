SPECIFICATION Spec
CONSTANTS
  Bytes = {x, y}
  NoByte = none
  UART_RX_BUF_SIZE = 2
  Paced = FALSE
  ValueMod = 16
INVARIANT WokenForAByte
