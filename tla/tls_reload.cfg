SPECIFICATION CertSpec
CONSTANT Certs = {1, 2}
PROPERTY ReloadedIsPresented
CHECK_DEADLOCK FALSE
