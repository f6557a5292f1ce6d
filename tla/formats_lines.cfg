SPECIFICATION Spec
CONSTANTS
  Ports <- MCPorts
  Wrapped <- MCWrapped
  Addresses <- MCAddresses
  NoEq <- MCNoEq
  Base64User <- MCBase64User
  BaseConf <- MCBaseConf
  SsCiphers <- MCSsCiphers
  SsrCiphers <- MCSsrCiphers
  ClashSsrCiphers <- MCClashSsrCiphers
  ClashRProtocols <- MCClashRProtocols
  ClashRObfs <- MCClashRObfs
  Sources <- MCPlainSources
  Exts <- MCExts
  Groups <- MCGroups
  MaxHops = 1
PROPERTY LinesAsWritten
\* A chain ends at its bound or where no node was read.
CHECK_DEADLOCK FALSE
