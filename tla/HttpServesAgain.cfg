CONSTANTS
  HTTP_TCP_CEP_NUM = 1
  RCV_BUF_SIZE = 3
  BODY_BUF_SIZE = 2
  HdrSize = 2
  MaxFile = 3
SPECIFICATION Spec
PROPERTY EndpointsServeAgain
