------------------------------ MODULE Protocol ------------------------------
(***************************************************************************)
(* The request and response codes the client and the server exchange.      *)
(* Requests carry the names of Client/Protocol.h, responses those of       *)
(* Server/protocol_constants.py; both files give the same numbers.         *)
(***************************************************************************)
EXTENDS Naturals

REGISTER_REQUEST_CODE   == 825
SEND_KEY_REQUEST_CODE   == 826
LOGIN_REQUEST_CODE      == 827
SEND_FILE_REQUEST_CODE  == 828
VALID_CRC_REQUEST_CODE         == 900
INVALID_CRC_REQUEST_CODE       == 901
INVALID_CRC_FINAL_REQUEST_CODE == 902

REGISTER_SUCCESS_CODE      == 1600
REGISTER_FAILED_CODE       == 1601
RECEIVED_KEY_SUCCESS_CODE  == 1602
RECEIVED_FILE_SUCCESS_CODE == 1603
SERVER_ACK_CODE            == 1604
LOGIN_SUCCESS_CODE         == 1605
LOGIN_FAIL_CODE            == 1606
GENERAL_FAIL_CODE          == 1607
=============================================================================
